---- MODULE Spec2Model ----
(***************************************************************************)
(* Model of the fankor framework:                                          *)
(*   - the fallback pair Either<L, R> (models/accounts/either.rs),         *)
(*   - the staged resource UninitializedAccount                            *)
(*     (models/accounts/uninitialized.rs),                                 *)
(*   - the zero-copy view of FnkSet<T> and its iterator                    *)
(*     (models/zc_types/sets.rs),                                          *)
(*   - the account attribute parser and the cross-field validation of the  *)
(*     schema compiler (fankor-macros, instruction_accounts/field.rs).     *)
(*                                                                         *)
(* One invocation owns a table of handles (AccountInfo), a cursor over the *)
(* remaining handle sequence (accounts) and a cursor over the remaining    *)
(* payload (buf).  Binders are operators that return the outcome together  *)
(* with the caller's cursors as the call leaves them.  Each component has  *)
(* its own specification; the variables of the others stay idle.           *)
(***************************************************************************)
EXTENDS Integers, Sequences, FiniteSets, TLC

VARIABLES
    infos,      \* handle -> [owner, lamports, space]: the AccountInfo fields
    accounts,   \* remaining handle sequence (the `accounts` cursor)
    buf,        \* remaining payload bytes (the `buf` cursor)
    pc,         \* "binding" while the invocation runs, "aborted" after an error
    fields,     \* number of fallback pairs bound so far in this invocation
    last,       \* the last call: its name, inputs, outcome and the
                \* create-and-fund requests it issued
    out,        \* outbound instruction parts written by the last serialization
    staged,     \* live UninitializedAccount objects
    nextId,     \* number of calls of UninitializedAccount::new so far
    spent,      \* ids of the staged objects consumed by a transition
    rejected,   \* handles for which UninitializedAccount::new returned an error
    zcData,     \* ZC.data: the shared byte buffer a zero-copy view reads
    offset,     \* ZC.offset: where the view of the FnkSet starts in the buffer
    instance,   \* the FnkSet value whose encoding was written at `offset`
    iter,       \* the Iter built from the view: len, index, offset
    yielded,    \* offsets of the element views the iterator returned so far
    res,        \* outcome of the last zero-copy operation
    field,      \* the Field that parse_attributes is filling in
    size_attr,  \* parse_attributes' local `size_attr`
    attrs,      \* the attribute blocks popped so far, with the arguments read
    attrsLen,   \* attrs.len(): the attribute blocks not popped yet
    ppc,        \* position of the parser: "start", "parsing", "done", "error"
    perr,       \* the message of the error the parser returned
    is_enum,    \* TRUE when the field is a variant case (Field::from_variant)
    fieldList,  \* the field list handed to check_fields
    checked,    \* outcome of check_fields
    ty,         \* the declared type handed to discriminate_type
    fieldKind   \* the FieldKind discriminate_type returned

bindVars == <<infos, accounts, buf, pc, fields, last, out, staged, nextId,
              spent, rejected>>
setVars == <<zcData, offset, instance, iter, yielded, res>>
fieldVars == <<field, size_attr, attrs, attrsLen, ppc, perr, is_enum>>
checkVars == <<fieldList, checked, ty, fieldKind>>

vars == <<infos, accounts, buf, pc, fields, last, out, staged, nextId, spent,
          rejected, zcData, offset, instance, iter, yielded, res, field,
          size_attr, attrs, attrsLen, ppc, perr, is_enum, fieldList, checked,
          ty, fieldKind>>

----------------------------------------------------------------------------
(* Bounds of the model *)

MaxAccounts == 2    \* longest handle sequence given to the binder
MaxBuf == 2         \* longest payload
MaxDepth == 1       \* nesting depth of the schemas given to Either as L and R
MaxFields == 1      \* fallback pairs bound in one invocation
MaxCursor == 1      \* longest handle sequence given to the staged lifecycle
MaxStaged == 2      \* calls of UninitializedAccount::new in one invocation
MaxTransitions == 2 \* transitions of staged objects in one invocation
MaxValue == 1       \* largest content value (its variable part, in bytes)
MaxSpace == 1       \* largest explicit space passed to init / init_pda

----------------------------------------------------------------------------
(* Handles and payload bytes *)

Handles == {"h1", "h2"}
Payer == "payer"
AllHandles == Handles \cup {Payer}

SystemProgramId == "system"
ProgramId == "program"
OtherProgramId == "other"
Owners == {SystemProgramId, ProgramId, OtherProgramId}

\* u8 values seen in the payload: the two discriminants and one other byte
Bytes == {0, 1, 2}

SeqsUpTo(S, n) == UNION {[1..k -> S] : k \in 0..n}

----------------------------------------------------------------------------
(* Errors and outcomes *)

NoSchema == [kind |-> "None"]
NoVal == [tag |-> "None"]
NoErr == [code |-> "", address |-> "", account |-> NoSchema]

NotEnoughAccountKeys ==
    [code |-> "NotEnoughAccountKeys", address |-> "", account |-> NoSchema]
NotEnoughDataToDeserializeInstruction ==
    [code |-> "NotEnoughDataToDeserializeInstruction", address |-> "",
     account |-> NoSchema]
AccountAlreadyInitialized(key) ==
    [code |-> "AccountAlreadyInitialized", address |-> key, account |-> NoSchema]
InstructionDidNotDeserialize(schema) ==
    [code |-> "InstructionDidNotDeserialize", address |-> "", account |-> schema]

\* Outcome of a binder call: Ok(val) or Err(err), the caller's cursors as the
\* call leaves them, and the inner binders the call invoked directly.
Ok(v, b, a, c) ==
    [ok |-> TRUE, val |-> v, err |-> NoErr, buf |-> b, accounts |-> a, calls |-> c]
Err(e, b, a, c) ==
    [ok |-> FALSE, val |-> NoVal, err |-> e, buf |-> b, accounts |-> a, calls |-> c]

----------------------------------------------------------------------------
(* Schemas: the binders whose code is known *)

Uninit == [kind |-> "Uninit"]
EitherOf(l, r) == [kind |-> "Either", l |-> l, r |-> r]

RECURSIVE SchemasOfDepth(_)
SchemasOfDepth(d) ==
    IF d = 0 THEN {Uninit}
    ELSE LET S == SchemasOfDepth(d - 1)
         IN  {Uninit} \cup {EitherOf(l, r) : l \in S, r \in S}

Schemas == SchemasOfDepth(MaxDepth)

----------------------------------------------------------------------------
(* UninitializedAccount::new and UninitializedAccount::try_from *)

IsEmptyHandle(h) ==
    infos[h].owner = SystemProgramId /\ infos[h].lamports = 0

\* mutant: the two conditions joined by && instead of ||
UninitializedAccountNewAnd(info) ==
    IF infos[info].owner # SystemProgramId /\ infos[info].lamports > 0
    THEN [ok |-> FALSE, val |-> NoVal, err |-> AccountAlreadyInitialized(info)]
    ELSE [ok |-> TRUE, val |-> [tag |-> "Uninit", info |-> info], err |-> NoErr]

UninitializedAccountNew(info) ==
    IF infos[info].owner # SystemProgramId \/ infos[info].lamports > 0
    THEN [ok |-> FALSE, val |-> NoVal, err |-> AccountAlreadyInitialized(info)]
    ELSE [ok |-> TRUE, val |-> [tag |-> "Uninit", info |-> info], err |-> NoErr]

\* mutant: the cursor is advanced only when the construction succeeds
UninitializedAccountTryFromRollback(a) ==
    IF a = <<>>
    THEN Err(NotEnoughAccountKeys, <<>>, a, <<>>)
    ELSE LET info == Head(a)
             r == UninitializedAccountNew(info)
         IN  IF r.ok THEN Ok(r.val, <<>>, Tail(a), <<>>)
             ELSE Err(r.err, <<>>, a, <<>>)

\* mutant: the first handle is read but the cursor is not advanced
UninitializedAccountTryFromPeek(a) ==
    IF a = <<>>
    THEN Err(NotEnoughAccountKeys, <<>>, a, <<>>)
    ELSE LET info == Head(a)
             r == UninitializedAccountNew(info)
         IN  IF r.ok THEN Ok(r.val, <<>>, a, <<>>)
             ELSE Err(r.err, <<>>, a, <<>>)

\* The cursor is advanced past the first handle before `new` is called, so it
\* stays advanced whatever `new` returns.
UninitializedAccountTryFrom(a) ==
    IF a = <<>>
    THEN Err(NotEnoughAccountKeys, <<>>, a, <<>>)
    ELSE LET info == Head(a)
             rest == Tail(a)
             r == UninitializedAccountNew(info)
         IN  IF r.ok THEN Ok(r.val, <<>>, rest, <<>>)
             ELSE Err(r.err, <<>>, rest, <<>>)

----------------------------------------------------------------------------
(* Either::try_from *)

RECURSIVE TryFrom(_, _, _)

\* One inner binder invocation, as Either::try_from makes it
Call(side, schema, b, a) ==
    [side |-> side, schema |-> schema, buf |-> b, accounts |-> a]

\* mutant: the private cursors are written back before the `?`
EitherTryFromCommitEarly(L, R, b, a) ==
    IF b = <<>>
    THEN Err(NotEnoughDataToDeserializeInstruction, b, a, <<>>)
    ELSE IF b[1] = 0
    THEN LET r == TryFrom(L, Tail(b), a)
             c == <<Call("L", L, Tail(b), a)>>
         IN  IF r.ok
             THEN Ok([tag |-> "Left", inner |-> r.val], r.buf, r.accounts, c)
             ELSE Err(r.err, r.buf, r.accounts, c)
    ELSE IF b[1] = 1
    THEN LET r == TryFrom(R, Tail(b), a)
             c == <<Call("R", R, Tail(b), a)>>
         IN  IF r.ok
             THEN Ok([tag |-> "Right", inner |-> r.val], r.buf, r.accounts, c)
             ELSE Err(r.err, r.buf, r.accounts, c)
    ELSE Err(InstructionDidNotDeserialize(EitherOf(L, R)), b, a, <<>>)

\* mutant: every non-zero discriminant selects R (no unrecognized variant)
EitherTryFromNoDefault(L, R, b, a) ==
    IF b = <<>>
    THEN Err(NotEnoughDataToDeserializeInstruction, b, a, <<>>)
    ELSE IF b[1] = 0
    THEN LET r == TryFrom(L, Tail(b), a)
             c == <<Call("L", L, Tail(b), a)>>
         IN  IF r.ok
             THEN Ok([tag |-> "Left", inner |-> r.val], r.buf, r.accounts, c)
             ELSE Err(r.err, b, a, c)
    ELSE LET r == TryFrom(R, Tail(b), a)
             c == <<Call("R", R, Tail(b), a)>>
         IN  IF r.ok
             THEN Ok([tag |-> "Right", inner |-> r.val], r.buf, r.accounts, c)
             ELSE Err(r.err, b, a, c)

\* mutant: on success only the payload cursor is written back
EitherTryFromKeepsHandles(L, R, b, a) ==
    IF b = <<>>
    THEN Err(NotEnoughDataToDeserializeInstruction, b, a, <<>>)
    ELSE IF b[1] = 0
    THEN LET r == TryFrom(L, Tail(b), a)
             c == <<Call("L", L, Tail(b), a)>>
         IN  IF r.ok
             THEN Ok([tag |-> "Left", inner |-> r.val], r.buf, a, c)
             ELSE Err(r.err, b, a, c)
    ELSE IF b[1] = 1
    THEN LET r == TryFrom(R, Tail(b), a)
             c == <<Call("R", R, Tail(b), a)>>
         IN  IF r.ok
             THEN Ok([tag |-> "Right", inner |-> r.val], r.buf, a, c)
             ELSE Err(r.err, b, a, c)
    ELSE Err(InstructionDidNotDeserialize(EitherOf(L, R)), b, a, <<>>)

\* The discriminant byte selects the side; the selected binder runs on private
\* copies (new_buf = &buf[1..], new_accounts = *accounts); `?` returns its
\* error before the copies are written back.
EitherTryFrom(L, R, b, a) ==
    IF b = <<>>
    THEN Err(NotEnoughDataToDeserializeInstruction, b, a, <<>>)
    ELSE IF b[1] = 0
    THEN LET r == TryFrom(L, Tail(b), a)
             c == <<Call("L", L, Tail(b), a)>>
         IN  IF r.ok
             THEN Ok([tag |-> "Left", inner |-> r.val], r.buf, r.accounts, c)
             ELSE Err(r.err, b, a, c)
    ELSE IF b[1] = 1
    THEN LET r == TryFrom(R, Tail(b), a)
             c == <<Call("R", R, Tail(b), a)>>
         IN  IF r.ok
             THEN Ok([tag |-> "Right", inner |-> r.val], r.buf, r.accounts, c)
             ELSE Err(r.err, b, a, c)
    ELSE Err(InstructionDidNotDeserialize(EitherOf(L, R)), b, a, <<>>)

\* Dispatch on the schema: the binder of an account type leaves the payload
\* cursor alone, the binder of a fallback pair is Either::try_from.
TryFrom(schema, b, a) ==
    IF schema.kind = "Uninit"
    THEN LET r == UninitializedAccountTryFrom(a)
         IN  [r EXCEPT !.buf = b]
    ELSE EitherTryFrom(schema.l, schema.r, b, a)

----------------------------------------------------------------------------
(* Outbound (CPI) form of a bound value *)

\* The CPI counterpart of a bound value: Either<L, R>::CPI is
\* CpiEither<L::CPI, R::CPI>, UninitializedAccount::CPI is AccountInfo.
RECURSIVE ToCpi(_)
ToCpi(v) ==
    IF v.tag = "Uninit" THEN [tag |-> "AccountInfo", info |-> v.info]
    ELSE IF v.tag = "Left" THEN [tag |-> "CpiLeft", inner |-> ToCpi(v.inner)]
    ELSE [tag |-> "CpiRight", inner |-> ToCpi(v.inner)]

\* What the operations on a bound value write: the instruction parts and the
\* handles given to the verification, with the operations of a side that the
\* fallback pairs invoked on the way
NoParts ==
    [writer |-> <<>>, metas |-> <<>>, infos |-> <<>>, verified |-> <<>>,
     calls |-> <<>>]

\* A fallback pair invokes the operation of its side L or R on the value `v`
Invoked(side, v) == [side |-> side, value |-> v]

\* An account handle carries no payload: it appends its metadata and itself.
AccountInfoSerialize(v, parts) ==
    [parts EXCEPT !.metas = Append(@, [pubkey |-> v.info]),
                  !.infos = Append(@, v.info)]

RECURSIVE SerializeIntoInstructionParts(_, _)

\* mutant: the operation of the other side is the one invoked
CpiEitherSerializeCrossed(v, parts) ==
    IF v.tag = "CpiLeft"
    THEN SerializeIntoInstructionParts(v.inner,
             [parts EXCEPT !.calls = Append(@, Invoked("R", v.inner))])
    ELSE SerializeIntoInstructionParts(v.inner,
             [parts EXCEPT !.calls = Append(@, Invoked("L", v.inner))])

\* CpiEither dispatches to the side that is held and writes nothing itself.
CpiEitherSerialize(v, parts) ==
    IF v.tag = "CpiLeft"
    THEN SerializeIntoInstructionParts(v.inner,
             [parts EXCEPT !.calls = Append(@, Invoked("L", v.inner))])
    ELSE SerializeIntoInstructionParts(v.inner,
             [parts EXCEPT !.calls = Append(@, Invoked("R", v.inner))])

SerializeIntoInstructionParts(v, parts) ==
    IF v.tag = "AccountInfo" THEN AccountInfoSerialize(v, parts)
    ELSE CpiEitherSerialize(v, parts)

----------------------------------------------------------------------------
(* Local (LPI) form of a bound value, and the verification of its handles *)

\* The LPI counterpart of a bound value: Either<L, R>::LPI is
\* LpiEither<L::LPI, R::LPI>, UninitializedAccount::LPI is Pubkey.
RECURSIVE ToLpi(_)
ToLpi(v) ==
    IF v.tag = "Uninit" THEN [tag |-> "Pubkey", key |-> v.info]
    ELSE IF v.tag = "Left" THEN [tag |-> "LpiLeft", inner |-> ToLpi(v.inner)]
    ELSE [tag |-> "LpiRight", inner |-> ToLpi(v.inner)]

\* A key carries no payload and no handle: it appends its metadata.
PubkeySerialize(v, parts) ==
    [parts EXCEPT !.metas = Append(@, [pubkey |-> v.key])]

RECURSIVE LpiSerializeIntoInstructionParts(_, _)

\* LpiEither dispatches to the side that is held and writes nothing itself.
LpiEitherSerialize(v, parts) ==
    IF v.tag = "LpiLeft"
    THEN LpiSerializeIntoInstructionParts(v.inner,
             [parts EXCEPT !.calls = Append(@, Invoked("L", v.inner))])
    ELSE LpiSerializeIntoInstructionParts(v.inner,
             [parts EXCEPT !.calls = Append(@, Invoked("R", v.inner))])

LpiSerializeIntoInstructionParts(v, parts) ==
    IF v.tag = "Pubkey" THEN PubkeySerialize(v, parts)
    ELSE LpiEitherSerialize(v, parts)

\* UninitializedAccount gives its handle to the verification.
UninitializedAccountVerifyAccountInfos(v, parts) ==
    [parts EXCEPT !.verified = Append(@, v.info)]

RECURSIVE VerifyAccountInfos(_, _)

\* Either hands the verification to the side that is held.
EitherVerifyAccountInfos(v, parts) ==
    IF v.tag = "Left"
    THEN VerifyAccountInfos(v.inner,
             [parts EXCEPT !.calls = Append(@, Invoked("L", v.inner))])
    ELSE VerifyAccountInfos(v.inner,
             [parts EXCEPT !.calls = Append(@, Invoked("R", v.inner))])

VerifyAccountInfos(v, parts) ==
    IF v.tag = "Uninit" THEN UninitializedAccountVerifyAccountInfos(v, parts)
    ELSE EitherVerifyAccountInfos(v, parts)

----------------------------------------------------------------------------
(* The invocation: initial states *)

\* A handle as the invocation receives it: owned by the system program or by
\* another program, with or without a balance.
InfoStates ==
    [owner : {SystemProgramId, OtherProgramId}, lamports : {0, 1}, space : {0}]

\* The arguments of a call that takes none
NoArgs ==
    [space |-> 0, value |-> 0, seeds |-> <<>>, payer |-> "", fault |-> "none"]

NoCall ==
    [op |-> "none", schema |-> NoSchema, target |-> "", buf |-> <<>>,
     accounts |-> <<>>, ok |-> TRUE, val |-> NoVal, err |-> NoErr,
     calls |-> <<>>, requests |-> <<>>, args |-> NoArgs]

NoOut == [op |-> "", from |-> NoVal, schema |-> NoSchema, parts |-> NoParts]

\* The zero-copy view and its iterator before anything is built
NoIter == [state |-> "none", len |-> 0, index |-> 0, offset |-> 0]
NoRes == [op |-> "none", kind |-> "none", val |-> 0]
IdleSet ==
    /\ zcData = <<>>
    /\ offset = 0
    /\ instance = <<>>
    /\ iter = NoIter
    /\ yielded = <<>>
    /\ res = NoRes

\* An absent Option<TokenStream>, and the Field as Field::from and
\* Field::from_variant create it: every argument None, no predicate.
NoTok == [form |-> "none", id |-> 0]
FieldNew ==
    [owner |-> NoTok, address |-> NoTok, initialized |-> NoTok,
     writable |-> NoTok, executable |-> NoTok, rent_exempt |-> NoTok,
     signer |-> NoTok, min |-> NoTok, max |-> NoTok, pda |-> NoTok,
     pda_program_id |-> NoTok, constraints |-> <<>>]
NoParseError == [kind |-> "", arg |-> ""]
IdleField ==
    /\ field = FieldNew
    /\ size_attr = FALSE
    /\ attrs = <<>>
    /\ attrsLen = 0
    /\ ppc = "idle"
    /\ perr = NoParseError
    /\ is_enum = FALSE

NoGenericArgument == [kind |-> "", name |-> ""]
NoType == [path |-> FALSE, segments |-> <<>>]
NoKind == [kind |-> "", inner |-> NoGenericArgument]
IdleType ==
    /\ ty = NoType
    /\ fieldKind = NoKind
IdleCheck ==
    /\ fieldList = <<>>
    /\ checked = "idle"
    /\ IdleType

\* The binder and the staged lifecycle when the invocation binds nothing
IdleBind ==
    /\ infos = [h \in AllHandles |->
                   [owner |-> SystemProgramId, lamports |-> 0, space |-> 0]]
    /\ accounts = <<>>
    /\ buf = <<>>
    /\ pc = "idle"
    /\ fields = 0
    /\ last = NoCall
    /\ out = NoOut
    /\ staged = {}
    /\ nextId = 0
    /\ spent = {}
    /\ rejected = {}

\* The content type T of the staged resources: a fixed header followed by a
\* variable part of 0..MaxValue bytes; a value is the length of its variable
\* part, and T::default() has none.
Values == 0..MaxValue
DefaultValue == 0

Init ==
    /\ infos \in [AllHandles -> InfoStates]
    /\ infos[Payer] = [owner |-> SystemProgramId, lamports |-> 1, space |-> 0]
    /\ accounts \in SeqsUpTo(Handles, MaxAccounts)
    /\ buf \in SeqsUpTo(Bytes, MaxBuf)
    /\ pc = "binding"
    /\ fields = 0
    /\ last = NoCall
    /\ out = NoOut
    /\ staged = {}
    /\ nextId = 0
    /\ spent = {}
    /\ rejected = {}
    /\ IdleSet /\ IdleField /\ IdleCheck

----------------------------------------------------------------------------
(* The invocation binds fallback pairs and re-encodes what it bound *)

\* One field of type Either<L, R> is bound from the current cursors; an error
\* propagates to the invocation boundary.
BindEither(L, R) ==
    /\ pc = "binding"
    /\ fields < MaxFields
    /\ LET r == EitherTryFrom(L, R, buf, accounts)
       IN  /\ buf' = r.buf
           /\ accounts' = r.accounts
           /\ pc' = IF r.ok THEN "binding" ELSE "aborted"
           /\ last' = [op |-> "Either::try_from", schema |-> EitherOf(L, R),
                       target |-> "", buf |-> buf, accounts |-> accounts,
                       ok |-> r.ok, val |-> r.val, err |-> r.err,
                       calls |-> r.calls, requests |-> <<>>,
                       args |-> NoArgs]
    /\ fields' = fields + 1
    /\ UNCHANGED <<infos, out, staged, nextId, spent, rejected>>
    /\ UNCHANGED <<setVars, fieldVars, checkVars>>

\* The value bound last is serialized into fresh outbound instruction parts.
Outbound ==
    /\ pc = "binding"
    /\ last.op = "Either::try_from"
    /\ last.ok
    /\ out.from # last.val \/ out.op # "cpi"
    /\ out' = [op |-> "cpi", from |-> last.val, schema |-> last.schema,
               parts |-> SerializeIntoInstructionParts(ToCpi(last.val), NoParts)]
    /\ UNCHANGED <<infos, accounts, buf, pc, fields, last, staged, nextId,
                   spent, rejected>>
    /\ UNCHANGED <<setVars, fieldVars, checkVars>>

\* The value bound last is serialized into fresh local instruction parts.
Local ==
    /\ pc = "binding"
    /\ last.op = "Either::try_from"
    /\ last.ok
    /\ out.from # last.val \/ out.op # "lpi"
    /\ out' = [op |-> "lpi", from |-> last.val, schema |-> last.schema,
               parts |-> LpiSerializeIntoInstructionParts(ToLpi(last.val),
                                                          NoParts)]
    /\ UNCHANGED <<infos, accounts, buf, pc, fields, last, staged, nextId,
                   spent, rejected>>
    /\ UNCHANGED <<setVars, fieldVars, checkVars>>

\* The handles of the value bound last are verified.
Verify ==
    /\ pc = "binding"
    /\ last.op = "Either::try_from"
    /\ last.ok
    /\ out.from # last.val \/ out.op # "verify"
    /\ out' = [op |-> "verify", from |-> last.val, schema |-> last.schema,
               parts |-> VerifyAccountInfos(last.val, NoParts)]
    /\ UNCHANGED <<infos, accounts, buf, pc, fields, last, staged, nextId,
                   spent, rejected>>
    /\ UNCHANGED <<setVars, fieldVars, checkVars>>

Next ==
    \/ \E L \in Schemas, R \in Schemas : BindEither(L, R)
    \/ Outbound
    \/ Local
    \/ Verify

Spec == Init /\ [][Next]_vars

----------------------------------------------------------------------------
(* Funding interface: minimum-balance query and create-and-fund request *)

AccountStorageOverhead == 128
LamportsPerByte == 6960

\* Rent::minimum_balance: the balance that exempts `space` bytes from rent
MinimumBalance(space) == (AccountStorageOverhead + space) * LamportsPerByte

\* AccountSize of the content type T
HeaderSize == 1
MinAccountSize == HeaderSize
ActualAccountSize(value) == HeaderSize + value

\* The error of the call `origin`, which the `?` behind it returns
ProgramError(origin) ==
    [code |-> "ProgramError", address |-> origin, account |-> NoSchema]

\* The system program creates `to` only if it is still empty and `from` can pay;
\* the request may also fail for reasons outside the invocation (fault).
CreateAccountSucceeds(from, to, lamports, fault) ==
    /\ fault = "none"
    /\ from # to
    /\ IsEmptyHandle(to)
    /\ infos[to].space = 0
    /\ infos[from].lamports >= lamports

CreateAccountEffect(from, to, lamports, space, owner) ==
    [infos EXCEPT ![from].lamports = @ - lamports,
                  ![to] = [owner |-> owner, lamports |-> lamports,
                           space |-> space]]

Faults == {"none", "rent", "cpi"}

\* The payer can fund every transition of the invocation
PayerInfo ==
    [owner |-> SystemProgramId,
     lamports |-> MaxStaged * MinimumBalance(MaxSpace + HeaderSize + MaxValue),
     space |-> 0]
SeedLists == {<<"seed", "bump">>}

----------------------------------------------------------------------------
(* Staged resource lifecycle *)

InitStaged ==
    /\ infos \in [AllHandles -> InfoStates \cup {PayerInfo}]
    /\ \A h \in Handles : infos[h] \in InfoStates
    /\ infos[Payer] = PayerInfo
    /\ accounts \in SeqsUpTo(Handles, MaxCursor)
    /\ buf = <<>>
    /\ pc = "binding"
    /\ fields = 0
    /\ last = NoCall
    /\ out = NoOut
    /\ staged = {}
    /\ nextId = 0
    /\ spent = {}
    /\ rejected = {}
    /\ IdleSet /\ IdleField /\ IdleCheck

\* What a call of UninitializedAccount::new leaves behind: the staged object
\* when it succeeds, the rejection when it fails.
Construct(r, info) ==
    /\ staged' = IF r.ok THEN staged \cup {[id |-> nextId, info |-> info]}
                 ELSE staged
    /\ rejected' = IF r.ok THEN rejected ELSE rejected \cup {info}
    /\ nextId' = nextId + 1

\* UninitializedAccount::try_from on the invocation's handle cursor
Stage ==
    /\ nextId < MaxStaged
    /\ LET r == UninitializedAccountTryFrom(accounts)
       IN  /\ accounts' = r.accounts
           /\ IF accounts = <<>>
              THEN UNCHANGED <<staged, rejected, nextId>>
              ELSE Construct(r, Head(accounts))
           /\ last' = [op |-> "UninitializedAccount::try_from",
                       schema |-> Uninit,
                       target |-> IF accounts = <<>> THEN "" ELSE Head(accounts),
                       buf |-> buf, accounts |-> accounts,
                       ok |-> r.ok, val |-> r.val, err |-> r.err,
                       calls |-> <<>>, requests |-> <<>>,
                       args |-> NoArgs]
    /\ UNCHANGED <<infos, buf, pc, fields, out, spent>>
    /\ UNCHANGED <<setVars, fieldVars, checkVars>>

\* UninitializedAccount::new called by the program on a handle it holds
New(info) ==
    /\ nextId < MaxStaged
    /\ LET r == UninitializedAccountNew(info)
       IN  /\ Construct(r, info)
           /\ last' = [op |-> "UninitializedAccount::new", schema |-> Uninit,
                       target |-> info, buf |-> buf, accounts |-> accounts,
                       ok |-> r.ok, val |-> r.val, err |-> r.err,
                       calls |-> <<>>, requests |-> <<>>,
                       args |-> NoArgs]
    /\ UNCHANGED <<infos, accounts, buf, pc, fields, out, spent>>
    /\ UNCHANGED <<setVars, fieldVars, checkVars>>

\* mutant: the staged object survives its transition
TransitionKeepsSelf(op, self, space, seeds, payer, data, fault, args) ==
    /\ self \in staged
    /\ Cardinality(spent) < MaxTransitions
    /\ staged' = staged
    /\ spent' = spent \cup {self.id}
    /\ LET lamports == MinimumBalance(space)
           issued == fault # "rent"
           done == issued /\ CreateAccountSucceeds(payer, self.info, lamports, fault)
           request == [from |-> payer, to |-> self.info, lamports |-> lamports,
                       space |-> space, owner |-> ProgramId,
                       signerSeeds |-> seeds,
                       toEmpty |-> IsEmptyHandle(self.info),
                       toLamports |-> infos[self.info].lamports,
                       toRejected |-> self.info \in rejected]
           account == [tag |-> "Account", info |-> self.info, data |-> data]
       IN  /\ infos' = IF done
                       THEN CreateAccountEffect(payer, self.info, lamports,
                                                space, ProgramId)
                       ELSE infos
           /\ last' = [op |-> op, schema |-> Uninit, target |-> self.info,
                       buf |-> buf, accounts |-> accounts, ok |-> done,
                       val |-> IF done THEN account ELSE NoVal,
                       err |-> IF done THEN NoErr
                               ELSE IF issued THEN ProgramError("create_account")
                               ELSE ProgramError("Rent::get"),
                       calls |-> <<>>,
                       requests |-> IF issued THEN <<request>> ELSE <<>>,
                       args |-> args]
    /\ UNCHANGED <<accounts, buf, pc, fields, out, nextId, rejected>>
    /\ UNCHANGED <<setVars, fieldVars, checkVars>>

\* mutant: the outcome of the create-and-fund request is not looked at
TransitionIgnoresRequest(op, self, space, seeds, payer, data, fault, args) ==
    /\ self \in staged
    /\ Cardinality(spent) < MaxTransitions
    /\ staged' = staged \ {self}
    /\ spent' = spent \cup {self.id}
    /\ LET lamports == MinimumBalance(space)
           issued == fault # "rent"
           done == issued /\ CreateAccountSucceeds(payer, self.info, lamports, fault)
           request == [from |-> payer, to |-> self.info, lamports |-> lamports,
                       space |-> space, owner |-> ProgramId,
                       signerSeeds |-> seeds,
                       toEmpty |-> IsEmptyHandle(self.info),
                       toLamports |-> infos[self.info].lamports,
                       toRejected |-> self.info \in rejected]
           account == [tag |-> "Account", info |-> self.info, data |-> data]
       IN  /\ infos' = IF done
                       THEN CreateAccountEffect(payer, self.info, lamports,
                                                space, ProgramId)
                       ELSE infos
           /\ last' = [op |-> op, schema |-> Uninit, target |-> self.info,
                       buf |-> buf, accounts |-> accounts, ok |-> issued,
                       val |-> IF issued THEN account ELSE NoVal,
                       err |-> IF issued THEN NoErr
                               ELSE ProgramError("Rent::get"),
                       calls |-> <<>>,
                       requests |-> IF issued THEN <<request>> ELSE <<>>,
                       args |-> args]
    /\ UNCHANGED <<accounts, buf, pc, fields, out, nextId, rejected>>
    /\ UNCHANGED <<setVars, fieldVars, checkVars>>

\* The body shared by the six transitions: query the minimum balance for
\* `space`, issue the create-and-fund request, wrap the handle and `data` in an
\* Account.  `self` is consumed whatever the outcome.  `args` are the
\* arguments as the caller of the transition gave them.
Transition(op, self, space, seeds, payer, data, fault, args) ==
    /\ self \in staged
    /\ Cardinality(spent) < MaxTransitions
    /\ staged' = staged \ {self}
    /\ spent' = spent \cup {self.id}
    /\ LET lamports == MinimumBalance(space)
           issued == fault # "rent"
           done == issued /\ CreateAccountSucceeds(payer, self.info, lamports, fault)
           request == [from |-> payer, to |-> self.info, lamports |-> lamports,
                       space |-> space, owner |-> ProgramId,
                       signerSeeds |-> seeds,
                       toEmpty |-> IsEmptyHandle(self.info),
                       toLamports |-> infos[self.info].lamports,
                       toRejected |-> self.info \in rejected]
           account == [tag |-> "Account", info |-> self.info, data |-> data]
       IN  /\ infos' = IF done
                       THEN CreateAccountEffect(payer, self.info, lamports,
                                                space, ProgramId)
                       ELSE infos
           /\ last' = [op |-> op, schema |-> Uninit, target |-> self.info,
                       buf |-> buf, accounts |-> accounts, ok |-> done,
                       val |-> IF done THEN account ELSE NoVal,
                       err |-> IF done THEN NoErr
                               ELSE IF issued THEN ProgramError("create_account")
                               ELSE ProgramError("Rent::get"),
                       calls |-> <<>>,
                       requests |-> IF issued THEN <<request>> ELSE <<>>,
                       args |-> args]
    /\ UNCHANGED <<accounts, buf, pc, fields, out, nextId, rejected>>
    /\ UNCHANGED <<setVars, fieldVars, checkVars>>

\* The arguments of a transition as its caller gives them; a form that takes
\* no space, value or seed list leaves that argument as in NoArgs
CallArgs(space, value, seeds, payer, fault) ==
    [space |-> space, value |-> value, seeds |-> seeds, payer |-> payer,
     fault |-> fault]

InitAccount(self, space, payer, fault) ==
    Transition("init", self, space, <<>>, payer, DefaultValue, fault,
               CallArgs(space, 0, <<>>, payer, fault))

InitPda(self, space, seeds, payer, fault) ==
    Transition("init_pda", self, space, <<seeds>>, payer, DefaultValue, fault,
               CallArgs(space, 0, seeds, payer, fault))

InitWithMinSpace(self, payer, fault) ==
    Transition("init_with_min_space", self, MinAccountSize, <<>>, payer,
               DefaultValue, fault, CallArgs(0, 0, <<>>, payer, fault))

\* mutant: the PDA form asks for no space at all
InitPdaWithMinSpaceZero(self, seeds, payer, fault) ==
    Transition("init_pda_with_min_space", self, 0, <<seeds>>, payer,
               DefaultValue, fault, CallArgs(0, 0, seeds, payer, fault))

InitPdaWithMinSpace(self, seeds, payer, fault) ==
    Transition("init_pda_with_min_space", self, MinAccountSize, <<seeds>>,
               payer, DefaultValue, fault, CallArgs(0, 0, seeds, payer, fault))

\* mutant: the value is funded like the smallest value of T
InitWithValueMinSpace(self, payer, value, fault) ==
    Transition("init_with_value", self, MinAccountSize, <<>>, payer, value,
               fault, CallArgs(0, value, <<>>, payer, fault))

InitWithValue(self, payer, value, fault) ==
    Transition("init_with_value", self, ActualAccountSize(value), <<>>, payer,
               value, fault, CallArgs(0, value, <<>>, payer, fault))

\* mutant: the PDA form with a value passes no signer seeds
InitPdaWithValueUnsigned(self, value, seeds, payer, fault) ==
    Transition("init_pda_with_value", self, ActualAccountSize(value),
               <<>>, payer, value, fault,
               CallArgs(0, value, seeds, payer, fault))

InitPdaWithValue(self, value, seeds, payer, fault) ==
    Transition("init_pda_with_value", self, ActualAccountSize(value),
               <<seeds>>, payer, value, fault,
               CallArgs(0, value, seeds, payer, fault))

NextStaged ==
    \/ Stage
    \/ \E info \in Handles : New(info)
    \/ \E self \in staged, space \in 0..MaxSpace, fault \in Faults :
          InitAccount(self, space, Payer, fault)
    \/ \E self \in staged, space \in 0..MaxSpace, seeds \in SeedLists,
          fault \in Faults : InitPda(self, space, seeds, Payer, fault)
    \/ \E self \in staged, fault \in Faults :
          InitWithMinSpace(self, Payer, fault)
    \/ \E self \in staged, seeds \in SeedLists, fault \in Faults :
          InitPdaWithMinSpace(self, seeds, Payer, fault)
    \/ \E self \in staged, value \in Values, fault \in Faults :
          InitWithValue(self, Payer, value, fault)
    \/ \E self \in staged, value \in Values, seeds \in SeedLists,
          fault \in Faults : InitPdaWithValue(self, value, seeds, Payer, fault)

SpecStaged == InitStaged /\ [][NextStaged]_vars

----------------------------------------------------------------------------
(* Properties of the fallback pair, checked under Spec *)

IsEitherCall == last.op = "Either::try_from"

\* C1: whenever the first schema L would bind on the payload and handle
\* sequence given to Either::try_from, the call returns the Left outcome.
\* The inputs are those with a discriminant byte on which L binds whether it
\* is handed the whole payload or the payload after that byte.
FirstSideAlwaysWins ==
    (/\ IsEitherCall
     /\ last.buf # <<>>
     /\ TryFrom(last.schema.l, last.buf, last.accounts).ok
     /\ TryFrom(last.schema.l, Tail(last.buf), last.accounts).ok)
        => (last.ok /\ last.val.tag = "Left")

\* C2: when the binder of L was run by Either::try_from and failed, the call
\* returns what the binder of R returns on the original cursors: Right of its
\* value, or its error.
FirstFailureFallsBack ==
    (/\ IsEitherCall
     /\ last.calls # <<>>
     /\ last.calls[1].side = "L"
     /\ ~TryFrom(last.schema.l, last.calls[1].buf, last.calls[1].accounts).ok)
        => LET r == TryFrom(last.schema.r, last.buf, last.accounts)
           IN  /\ last.ok = r.ok
               /\ r.ok => last.val = [tag |-> "Right", inner |-> r.val]
               /\ ~r.ok => last.err = r.err

Discriminant(v) == IF v.tag = "Left" THEN 0 ELSE 1

\* C3: the outbound form of a bound fallback pair starts its byte stream with
\* the discriminant of the held side, and binding the produced bytes and
\* handles again selects the same side.
CpiRoundTripSelectsSameSide ==
    out.op = "cpi"
        => /\ out.parts.writer # <<>>
           /\ out.parts.writer[1] = Discriminant(out.from)
           /\ LET r == TryFrom(out.schema, out.parts.writer, out.parts.infos)
              IN  r.ok /\ r.val.tag = out.from.tag

\* C4: when Either::try_from returns an error, the caller's payload cursor and
\* handle cursor are what they were before the call.
EitherErrorLeavesCursors ==
    (IsEitherCall /\ ~last.ok) => (buf = last.buf /\ accounts = last.accounts)

\* The selected side consumed a handle on its private cursor and then failed.
EitherErrorAfterPrivateAdvance ==
    /\ IsEitherCall
    /\ ~last.ok
    /\ last.err.code = "AccountAlreadyInitialized"
    /\ last.accounts # <<>>
    /\ accounts = last.accounts

----------------------------------------------------------------------------
(* Properties of the staged resource, checked under SpecStaged *)

IsUninitTryFrom == last.op = "UninitializedAccount::try_from"
IsNewCall == last.target # "" /\ (IsUninitTryFrom \/ last.op = "UninitializedAccount::new")

\* C5 as stated: whenever UninitializedAccount::try_from returns an error the
\* handle cursor is where it was before the call.
UninitErrorConsumesNothing ==
    (IsUninitTryFrom /\ ~last.ok) => accounts = last.accounts

\* C5 amended: with no handle left the call fails with NotEnoughAccountKeys and
\* the (empty) cursor is unchanged; when the next handle is already owned or
\* funded the call fails with AccountAlreadyInitialized and the cursor has
\* advanced past that one handle.
UninitErrorConsumption ==
    (IsUninitTryFrom /\ ~last.ok) =>
        IF last.accounts = <<>>
        THEN last.err = NotEnoughAccountKeys /\ accounts = <<>>
        ELSE /\ last.err = AccountAlreadyInitialized(Head(last.accounts))
             /\ ~IsEmptyHandle(Head(last.accounts))
             /\ accounts = Tail(last.accounts)

\* The next handle was rejected and is no longer in the cursor.
UninitRejectedHandleConsumed ==
    /\ IsUninitTryFrom
    /\ ~last.ok
    /\ last.err.code = "AccountAlreadyInitialized"
    /\ Len(accounts) = Len(last.accounts) - 1

\* C7: UninitializedAccount::new succeeds exactly when the handle is owned by
\* the system program and has a zero balance; otherwise it fails with
\* AccountAlreadyInitialized carrying the handle's address and no staged
\* object exists for that call.
NewSucceedsIffEmpty ==
    IsNewCall =>
        /\ last.ok <=> (infos[last.target].owner = SystemProgramId
                        /\ infos[last.target].lamports = 0)
        /\ last.ok => /\ last.val = [tag |-> "Uninit", info |-> last.target]
                      /\ [id |-> nextId - 1, info |-> last.target] \in staged
        /\ ~last.ok => /\ last.err = AccountAlreadyInitialized(last.target)
                       /\ last.val = NoVal
                       /\ \A st \in staged : st.id # nextId - 1

\* A handle of the system program that holds a balance is rejected.
NewRejectsFundedSystemHandle ==
    /\ last.op = "UninitializedAccount::new"
    /\ ~last.ok
    /\ infos[last.target].owner = SystemProgramId
    /\ infos[last.target].lamports > 0

\* C8: no create-and-fund request is issued for a handle that holds a positive
\* balance or whose staging was rejected.
NoRequestForFundedHandle ==
    \A i \in 1..Len(last.requests) :
        last.requests[i].toLamports = 0 /\ ~last.requests[i].toRejected

\* C9: every create-and-fund request is issued for a handle that is empty
\* (owned by the system program, zero balance) at the moment of the request.
RequestsOnlyForEmptyHandles ==
    \A i \in 1..Len(last.requests) : last.requests[i].toEmpty

Transitions ==
    {"init", "init_pda", "init_with_min_space", "init_pda_with_min_space",
     "init_with_value", "init_pda_with_value"}
ValueForms == {"init_with_value", "init_pda_with_value"}
MinSpaceForms == {"init_with_min_space", "init_pda_with_min_space"}

IsTransitionDone == last.op \in Transitions /\ last.ok

\* C10 as stated: after a successful transition the handle holds at least the
\* minimum balance for the encoded size of the content of the returned value.
FundedForContentSize ==
    IsTransitionDone =>
        infos[last.target].lamports
            >= MinimumBalance(ActualAccountSize(last.val.data))

\* C10 amended: after a successful transition the handle holds at least the
\* minimum balance for the size the transition asked for: the explicit space
\* for init and init_pda, T::min_account_size() for the *_with_min_space
\* forms, and the encoded size of the carried value for the *_with_value forms.
FundedForTargetSize ==
    IsTransitionDone =>
        LET space == last.requests[1].space
        IN  /\ last.val.info = last.target
            /\ infos[last.target].lamports >= MinimumBalance(space)
            /\ infos[last.target].space = space
            /\ last.op \in ValueForms
                  => space = ActualAccountSize(last.val.data)
            /\ last.op \in MinSpaceForms => space = MinAccountSize

\* A value larger than the smallest value of T was funded through
\* init_with_value.
FundedLargeValue ==
    /\ IsTransitionDone
    /\ last.op = "init_with_value"
    /\ last.val.data > DefaultValue

IsTransition == last.op \in Transitions

\* The size a transition asks for, by form: the explicit space, the minimum
\* size of T, or the encoded size of the carried value.
TargetSize ==
    IF last.op \in ValueForms THEN ActualAccountSize(last.args.value)
    ELSE IF last.op \in MinSpaceForms THEN MinAccountSize
    ELSE last.args.space

\* The one request a transition issues for its target size
IsRequestOf(req) ==
    /\ req.lamports = MinimumBalance(TargetSize)
    /\ req.space = TargetSize
    /\ req.from = last.args.payer
    /\ req.to = last.target
    /\ req.owner = ProgramId

\* C11 as stated: every transition issues exactly one create-and-fund request,
\* for the minimum balance of the target size, of that size, from the funding
\* handle to the staged handle, owned by the invoking program.
EveryTransitionIssuesOneRequest ==
    IsTransition =>
        /\ Len(last.requests) = 1
        /\ IsRequestOf(last.requests[1])

\* C11 amended: a transition whose minimum-balance query fails issues no
\* request and returns the error; every other transition issues exactly one
\* request, for the minimum balance of the target size, of that size, from the
\* funding handle to the staged handle, owned by the invoking program.
TransitionIssuesOneRequestAfterQuery ==
    IsTransition =>
        IF last.args.fault = "rent"
        THEN last.requests = <<>> /\ ~last.ok
        ELSE /\ Len(last.requests) = 1
             /\ IsRequestOf(last.requests[1])

\* A PDA transition for the minimum size of T issued its request.
MinSpacePdaRequestIssued ==
    /\ last.op = "init_pda_with_min_space"
    /\ Len(last.requests) = 1
    /\ last.ok

----------------------------------------------------------------------------
(* Zero-copy sets: models/zc_types/sets.rs *)

MaxElems == 2       \* most elements of a set
MaxElemLen == 1     \* longest element
MaxLead == 1        \* bytes stored in the buffer before the set
MaxTrail == 1       \* bytes stored in the buffer after the set

\* Outcome of a zero-copy operation: a value, an error value, or a panic
ZOk(v) == [kind |-> "ok", val |-> v]
ZErr == [kind |-> "err", val |-> 0]
ZPanic == [kind |-> "panic", val |-> 0]

\* &bytes[n..] for n <= bytes.len()
Drop(bytes, n) == SubSeq(bytes, n + 1, Len(bytes))

\* FnkUInt, the compact length prefix: little-endian groups of seven bits,
\* the high bit set on every byte but the last.
FnkUIntGroup == 128

RECURSIVE FnkUIntSerialize(_)
FnkUIntSerialize(n) ==
    IF n < FnkUIntGroup THEN <<n>>
    ELSE <<FnkUIntGroup + (n % FnkUIntGroup)>>
             \o FnkUIntSerialize(n \div FnkUIntGroup)

FnkUIntByteSizeFromInstance(n) == Len(FnkUIntSerialize(n))

\* FnkUInt::deserialize(&mut bytes): the value and the advanced slice
RECURSIVE FnkUIntDeserialize(_)
FnkUIntDeserialize(bytes) ==
    IF bytes = <<>> THEN [ok |-> FALSE, val |-> 0, rest |-> <<>>]
    ELSE IF Head(bytes) < FnkUIntGroup
    THEN [ok |-> TRUE, val |-> Head(bytes), rest |-> Tail(bytes)]
    ELSE LET r == FnkUIntDeserialize(Tail(bytes))
         IN  [ok |-> r.ok,
              val |-> (Head(bytes) - FnkUIntGroup) + FnkUIntGroup * r.val,
              rest |-> r.rest]

\* The element type T: a byte string, stored as its length prefix followed by
\* its bytes.
ContentBytes == {0, 1}
Elems == SeqsUpTo(ContentBytes, MaxElemLen)
ElemSerialize(e) == FnkUIntSerialize(Len(e)) \o e
ElemByteSizeFromInstance(e) == FnkUIntByteSizeFromInstance(Len(e)) + Len(e)

\* T::byte_size(bytes): the size of the element that starts the slice, an
\* error when the slice ends before the element does
ElemByteSize(bytes) ==
    LET d == FnkUIntDeserialize(bytes)
    IN  IF ~d.ok \/ Len(d.rest) < d.val THEN ZErr
        ELSE ZOk((Len(bytes) - Len(d.rest)) + d.val)

\* The order of the elements of a set
RECURSIVE LexLess(_, _)
LexLess(a, b) ==
    IF b = <<>> THEN FALSE
    ELSE IF a = <<>> THEN TRUE
    ELSE IF Head(a) # Head(b) THEN Head(a) < Head(b)
    ELSE LexLess(Tail(a), Tail(b))

\* FnkSet<T> values: the elements in the order the set keeps them
FnkSets ==
    {v \in SeqsUpTo(Elems, MaxElems) :
        \A i \in 1..(Len(v) - 1) : LexLess(v[i], v[i + 1])}

RECURSIVE ElemsSerialize(_)
ElemsSerialize(v) ==
    IF v = <<>> THEN <<>> ELSE ElemSerialize(Head(v)) \o ElemsSerialize(Tail(v))

\* The wire encoding of a set: the length prefix, then the elements
FnkSetSerialize(v) == FnkUIntSerialize(Len(v)) \o ElemsSerialize(v)

RECURSIVE ElemsByteSizeFromInstance(_)
ElemsByteSizeFromInstance(v) ==
    IF v = <<>> THEN 0
    ELSE ElemByteSizeFromInstance(Head(v)) + ElemsByteSizeFromInstance(Tail(v))

\* FnkSet::byte_size_from_instance
FnkSetByteSizeFromInstance(v) ==
    FnkUIntByteSizeFromInstance(Len(v)) + ElemsByteSizeFromInstance(v)

\* The loop of FnkSet::byte_size: `bytes` is re-sliced by the running `size`
\* and the size of the element found there is added, `n` more times.
RECURSIVE ByteSizeLoop(_, _, _)
ByteSizeLoop(bytes, size, n) ==
    IF n = 0 THEN ZOk(size)
    ELSE IF size > Len(bytes) THEN ZPanic
    ELSE LET rest == Drop(bytes, size)
             r == ElemByteSize(rest)
         IN  IF r.kind # "ok" THEN ZErr
             ELSE ByteSizeLoop(rest, size + r.val, n - 1)

\* FnkSet::byte_size: `size` starts at the decoded count, `bytes` after the
\* length prefix
FnkSetByteSize(bytes) ==
    LET len == FnkUIntDeserialize(bytes)
    IN  IF ~len.ok THEN ZErr ELSE ByteSizeLoop(len.rest, len.val, len.val)

\* ZC<FnkSet<T>>::len of the view at `off` of buffer `d`
ZcLen(d, off) ==
    IF off > Len(d) THEN ZPanic
    ELSE LET len == FnkUIntDeserialize(Drop(d, off))
         IN  IF len.ok THEN ZOk(len.val) ELSE ZErr

\* ZC<FnkSet<T>>::is_empty
ZcIsEmpty(d, off) ==
    LET len == ZcLen(d, off)
    IN  IF len.kind = "ok" THEN ZOk(IF len.val = 0 THEN 1 ELSE 0) ELSE len

\* into_iter: the iterator starts at the offset of the view with the decoded
\* length; `expect` panics when the length cannot be decoded
IntoIterOf(d, off) ==
    LET len == ZcLen(d, off)
    IN  IF len.kind = "ok"
        THEN [state |-> "live", len |-> len.val, index |-> 0, offset |-> off]
        ELSE [state |-> "panicked", len |-> 0, index |-> 0, offset |-> off]

\* mutant: at the end the iterator goes back to the start of the view
IterNextOfRewinds(it, d) ==
    IF it.index >= it.len
    THEN [iter |-> [it EXCEPT !.state = "done", !.index = 0],
          some |-> FALSE, item |-> 0]
    ELSE IF it.offset > Len(d)
    THEN [iter |-> [it EXCEPT !.state = "panicked"], some |-> FALSE, item |-> 0]
    ELSE LET size == ElemByteSize(Drop(d, it.offset))
         IN  IF size.kind # "ok"
             THEN [iter |-> [it EXCEPT !.state = "panicked"], some |-> FALSE,
                   item |-> 0]
             ELSE [iter |-> [it EXCEPT !.offset = it.offset + size.val,
                                       !.index = it.index + 1],
                   some |-> TRUE, item |-> it.offset]

\* Iter::next: None at the end; otherwise the view at the current offset, and
\* the offset moves by the size of the element found there (`expect` panics
\* when that size cannot be computed)
IterNextOf(it, d) ==
    IF it.index >= it.len
    THEN [iter |-> [it EXCEPT !.state = "done"], some |-> FALSE, item |-> 0]
    ELSE IF it.offset > Len(d)
    THEN [iter |-> [it EXCEPT !.state = "panicked"], some |-> FALSE, item |-> 0]
    ELSE LET size == ElemByteSize(Drop(d, it.offset))
         IN  IF size.kind # "ok"
             THEN [iter |-> [it EXCEPT !.state = "panicked"], some |-> FALSE,
                   item |-> 0]
             ELSE [iter |-> [it EXCEPT !.offset = it.offset + size.val,
                                       !.index = it.index + 1],
                   some |-> TRUE, item |-> it.offset]

\* Iter::size_hint
SizeHint(it) == it.len - it.index

\* Bytes stored before and after the set in the shared buffer
Leads == SeqsUpTo({0}, MaxLead)
Trails == SeqsUpTo(ContentBytes, MaxTrail)

\* A buffer holds the encoding of a set behind `offset`, whole and followed by
\* other bytes, or cut short.
InitSet ==
    /\ IdleBind /\ IdleField /\ IdleCheck
    /\ instance \in FnkSets
    /\ \E lead \in Leads, trail \in Trails,
          cut \in 0..Len(FnkSetSerialize(instance)) :
          /\ trail # <<>> => cut = Len(FnkSetSerialize(instance))
          /\ zcData = lead \o SubSeq(FnkSetSerialize(instance), 1, cut) \o trail
          /\ offset = Len(lead)
    /\ iter = NoIter
    /\ yielded = <<>>
    /\ res = NoRes

\* FnkSet::byte_size on the bytes of the view
ByteSize ==
    /\ LET r == FnkSetByteSize(Drop(zcData, offset))
       IN  res' = [op |-> "byte_size", kind |-> r.kind, val |-> r.val]
    /\ UNCHANGED <<zcData, offset, instance, iter, yielded>>
    /\ UNCHANGED <<bindVars, fieldVars, checkVars>>

\* ZC::len
ViewLen ==
    /\ LET r == ZcLen(zcData, offset)
       IN  res' = [op |-> "len", kind |-> r.kind, val |-> r.val]
    /\ UNCHANGED <<zcData, offset, instance, iter, yielded>>
    /\ UNCHANGED <<bindVars, fieldVars, checkVars>>

\* ZC::is_empty
ViewIsEmpty ==
    /\ LET r == ZcIsEmpty(zcData, offset)
       IN  res' = [op |-> "is_empty", kind |-> r.kind, val |-> r.val]
    /\ UNCHANGED <<zcData, offset, instance, iter, yielded>>
    /\ UNCHANGED <<bindVars, fieldVars, checkVars>>

\* (&view).into_iter(): a fresh iterator, when none is in use
IntoIter ==
    /\ iter.state \in {"none", "done"}
    /\ iter' = IntoIterOf(zcData, offset)
    /\ yielded' = <<>>
    /\ res' = [op |-> "into_iter",
               kind |-> IF iter'.state = "panicked" THEN "panic" ELSE "ok",
               val |-> 0]
    /\ UNCHANGED <<zcData, offset, instance>>
    /\ UNCHANGED <<bindVars, fieldVars, checkVars>>

\* mutant: the step moves the offset of the view along with the iterator
IterNextMovesView ==
    /\ iter.state \in {"live", "done"}
    /\ LET r == IterNextOf(iter, zcData)
       IN  /\ iter' = r.iter
           /\ offset' = r.iter.offset
           /\ yielded' = IF r.some THEN Append(yielded, r.item) ELSE yielded
           /\ res' = [op |-> "next",
                      kind |-> IF r.iter.state = "panicked" THEN "panic"
                               ELSE IF r.some THEN "ok" ELSE "none",
                      val |-> r.item]
    /\ UNCHANGED <<zcData, instance>>
    /\ UNCHANGED <<bindVars, fieldVars, checkVars>>

\* Iter::next on the iterator in use
IterNext ==
    /\ iter.state \in {"live", "done"}
    /\ LET r == IterNextOf(iter, zcData)
       IN  /\ iter' = r.iter
           /\ yielded' = IF r.some THEN Append(yielded, r.item) ELSE yielded
           /\ res' = [op |-> "next",
                      kind |-> IF r.iter.state = "panicked" THEN "panic"
                               ELSE IF r.some THEN "ok" ELSE "none",
                      val |-> r.item]
    /\ UNCHANGED <<zcData, offset, instance>>
    /\ UNCHANGED <<bindVars, fieldVars, checkVars>>

NextSet ==
    \/ ByteSize
    \/ ViewLen
    \/ ViewIsEmpty
    \/ IntoIter
    \/ IterNext

SpecSet == InitSet /\ [][NextSet]_vars

----------------------------------------------------------------------------
(* Properties of the zero-copy set, checked under SpecSet *)

\* The stored bytes of the view: what the buffer holds from `offset` on
Stored == Drop(zcData, offset)

\* The buffer holds the whole encoding of the set
IsWhole == Len(Stored) >= Len(FnkSetSerialize(instance))

\* The buffer holds the length prefix but ends before the last element does
IsCutShort ==
    /\ ~IsWhole
    /\ Len(Stored) >= FnkUIntByteSizeFromInstance(Len(instance))

\* Where element i (from 0) of the set is stored
ElementOffset(i) ==
    offset + FnkUIntByteSizeFromInstance(Len(instance))
           + ElemsByteSizeFromInstance(SubSeq(instance, 1, i))

\* C12: iterating a view of a set of N elements yields exactly N items and
\* then None; the remaining length reported by size_hint is N before the first
\* step, one less after each item and zero at the end; 0 <= index <= len holds
\* in every state of the iterator.
IterYieldsCount ==
    (IsWhole /\ iter.state # "none") =>
        /\ iter.state # "panicked"
        /\ iter.len = Len(instance)
        /\ 0 <= iter.index /\ iter.index <= iter.len
        /\ SizeHint(iter) = Len(instance) - Len(yielded)
        /\ iter.state = "done" => Len(yielded) = Len(instance)

\* C13: the i-th item the iterator yields is the view of the i-th stored
\* element, at the offset of the set plus the size of the length prefix plus
\* the sizes of the elements before it; no item is a view of the length prefix.
YieldedAreStoredElements ==
    IsWhole =>
        \A i \in 1..Len(yielded) :
            /\ yielded[i] = ElementOffset(i - 1)
            /\ yielded[i] # offset

\* C14: FnkSet::byte_size of the wire encoding of a set returns what
\* byte_size_from_instance returns for the set.
ByteSizeAgrees ==
    (res.op = "byte_size" /\ Stored = FnkSetSerialize(instance)) =>
        res = [op |-> "byte_size", kind |-> "ok",
               val |-> FnkSetByteSizeFromInstance(instance)]

\* C15: on a buffer that ends before the elements do, FnkSet::byte_size,
\* ZC::len, into_iter and Iter::next never panic, and FnkSet::byte_size ends
\* with an error value.
CutShortGivesError ==
    IsCutShort =>
        /\ res.kind # "panic"
        /\ iter.state # "panicked"
        /\ res.op = "byte_size" => res.kind = "err"

----------------------------------------------------------------------------
(* The account attribute parser: instruction_accounts/field.rs *)

MaxBlocks == 2      \* most attribute blocks of one field
MaxArgs == 2        \* most arguments of one field, over all its blocks

\* Argument names the parser knows, and one it does not know
FlagArguments ==
    {"initialized", "writable", "executable", "rent_exempt", "signer"}
PlainValueArguments == {"owner", "address", "pda", "pda_program_id"}
BoundArguments == {"min", "max"}
ConvenienceArguments == {"associated_token_pda", "metadata_pda"}
KnownArguments ==
    FlagArguments \cup PlainValueArguments \cup BoundArguments
        \cup ConvenienceArguments \cup {"size", "constraint"}
ArgumentNames == KnownArguments \cup {"unknown"}

\* How an argument is written: `name`, `name = <expr>`, or `name = (a, b)`;
\* the two-element tuple is told apart for the arguments that look at it.
WrittenForms(name) ==
    IF name = "associated_token_pda" THEN {"none", "expr", "tuple2"}
    ELSE {"none", "expr"}

\* Token streams stored in the Field.  The value of the id-th argument read is
\* the expression Expr(id).
Expr(id) == [form |-> "expr", id |-> id]
TrueTok == [form |-> "true", id |-> 0]
AssociatedTokenSeeds(id) == [form |-> "AssociatedToken::get_pda_seeds", id |-> id]
AssociatedTokenAddress == [form |-> "AssociatedToken::address()", id |-> 0]
MetadataAddress == [form |-> "Metadata::address()", id |-> 0]
IsSome(tok) == tok # NoTok

\* Errors of the parser
NotAllowedInEnums(name) == [kind |-> "is not allowed in enums", arg |-> name]
DefinedOnce(name) == [kind |-> "can only be defined once", arg |-> name]
MustUseValue(name) == [kind |-> "must use a value", arg |-> name]
IncompatibleWithSize(name) ==
    [kind |-> "is incompatible with the size argument", arg |-> name]
SizeIncompatibleWithBounds ==
    [kind |-> "is incompatible with the min and max arguments", arg |-> "size"]
IncompatibleWithProgramId(name) ==
    [kind |-> "is incompatible with the pda_program_id argument", arg |-> name]
MustBeTuple(name) ==
    [kind |-> "must be a tuple with two elements", arg |-> name]
UnknownArgument == [kind |-> "Unknown argument", arg |-> ""]
ExpectsArguments ==
    [kind |-> "The account attribute expects arguments", arg |-> ""]
ProgramIdWithoutPda ==
    [kind |-> "cannot be defined without the pda argument",
     arg |-> "pda_program_id"]
SingleUnnamedField ==
    [kind |-> "Instruction variants can only have a single unnamed field",
     arg |-> ""]
VariantMustBeLike ==
    [kind |-> "Instruction variants must be like: Variant(<account>)",
     arg |-> ""]

\* The parser between two arguments: the Field and the local size_attr
Accept(f, sa) ==
    [ok |-> TRUE, field |-> f, size_attr |-> sa, err |-> NoParseError]
Reject(st, e) ==
    [ok |-> FALSE, field |-> st.field, size_attr |-> st.size_attr, err |-> e]

\* mutant: an argument written with a value is recorded as `true`
ParsePlainValueAsTrue(st, name, id, enum) ==
    IF enum THEN Reject(st, NotAllowedInEnums(name))
    ELSE IF IsSome(st.field[name]) THEN Reject(st, DefinedOnce(name))
    ELSE Accept([st.field EXCEPT ![name] = TrueTok], st.size_attr)

\* owner, address, pda, pda_program_id and the five flags written with a value
ParsePlainValue(st, name, id, enum) ==
    IF enum THEN Reject(st, NotAllowedInEnums(name))
    ELSE IF IsSome(st.field[name]) THEN Reject(st, DefinedOnce(name))
    ELSE Accept([st.field EXCEPT ![name] = Expr(id)], st.size_attr)

\* min = <expr>, max = <expr>
ParseBound(st, name, id, enum) ==
    IF enum THEN Reject(st, NotAllowedInEnums(name))
    ELSE IF st.size_attr THEN Reject(st, IncompatibleWithSize(name))
    ELSE IF IsSome(st.field[name]) THEN Reject(st, DefinedOnce(name))
    ELSE Accept([st.field EXCEPT ![name] = Expr(id)], st.size_attr)

\* mutant: size does not look at the bounds already set
ParseSizeOverBounds(st, id, enum) ==
    IF enum THEN Reject(st, NotAllowedInEnums("size"))
    ELSE IF st.size_attr THEN Reject(st, DefinedOnce("size"))
    ELSE Accept([st.field EXCEPT !.min = Expr(id), !.max = Expr(id)], TRUE)

\* size = <expr>
ParseSize(st, id, enum) ==
    IF enum THEN Reject(st, NotAllowedInEnums("size"))
    ELSE IF st.size_attr THEN Reject(st, DefinedOnce("size"))
    ELSE IF IsSome(st.field.min) \/ IsSome(st.field.max)
    THEN Reject(st, SizeIncompatibleWithBounds)
    ELSE Accept([st.field EXCEPT !.min = Expr(id), !.max = Expr(id)], TRUE)

\* associated_token_pda = <expr>
ParseAssociatedTokenPda(st, value, id, enum) ==
    IF enum THEN Reject(st, NotAllowedInEnums("associated_token_pda"))
    ELSE IF IsSome(st.field.pda)
    THEN Reject(st, DefinedOnce("associated_token_pda"))
    ELSE IF IsSome(st.field.pda_program_id)
    THEN Reject(st, IncompatibleWithProgramId("associated_token_pda"))
    ELSE IF value # "tuple2" THEN Reject(st, MustBeTuple("associated_token_pda"))
    ELSE Accept([st.field EXCEPT !.pda = AssociatedTokenSeeds(id),
                                 !.pda_program_id = AssociatedTokenAddress],
                st.size_attr)

\* mutant: metadata_pda does not look at a pda_program_id already set
ParseMetadataPdaOverProgramId(st, id, enum) ==
    IF enum THEN Reject(st, NotAllowedInEnums("metadata_pda"))
    ELSE IF IsSome(st.field.pda) THEN Reject(st, DefinedOnce("metadata_pda"))
    ELSE Accept([st.field EXCEPT !.pda = Expr(id),
                                 !.pda_program_id = MetadataAddress],
                st.size_attr)

\* metadata_pda = <expr>
ParseMetadataPda(st, id, enum) ==
    IF enum THEN Reject(st, NotAllowedInEnums("metadata_pda"))
    ELSE IF IsSome(st.field.pda) THEN Reject(st, DefinedOnce("metadata_pda"))
    ELSE IF IsSome(st.field.pda_program_id)
    THEN Reject(st, IncompatibleWithProgramId("metadata_pda"))
    ELSE Accept([st.field EXCEPT !.pda = Expr(id),
                                 !.pda_program_id = MetadataAddress],
                st.size_attr)

\* constraint = <expr>
ParseConstraint(st, id, enum) ==
    IF enum THEN Reject(st, NotAllowedInEnums("constraint"))
    ELSE Accept([st.field EXCEPT
                    !.constraints = Append(st.field.constraints, Expr(id))],
                st.size_attr)

\* mutant: an unknown argument written with a value is passed over
ParseValuedLenient(st, name, value, id, enum) ==
    IF name \in PlainValueArguments \cup FlagArguments
    THEN ParsePlainValue(st, name, id, enum)
    ELSE IF name \in BoundArguments THEN ParseBound(st, name, id, enum)
    ELSE IF name = "size" THEN ParseSize(st, id, enum)
    ELSE IF name = "associated_token_pda"
    THEN ParseAssociatedTokenPda(st, value, id, enum)
    ELSE IF name = "metadata_pda" THEN ParseMetadataPda(st, id, enum)
    ELSE IF name = "constraint" THEN ParseConstraint(st, id, enum)
    ELSE Accept(st.field, st.size_attr)

\* An argument written with a value
ParseValued(st, name, value, id, enum) ==
    IF name \in PlainValueArguments \cup FlagArguments
    THEN ParsePlainValue(st, name, id, enum)
    ELSE IF name \in BoundArguments THEN ParseBound(st, name, id, enum)
    ELSE IF name = "size" THEN ParseSize(st, id, enum)
    ELSE IF name = "associated_token_pda"
    THEN ParseAssociatedTokenPda(st, value, id, enum)
    ELSE IF name = "metadata_pda" THEN ParseMetadataPda(st, id, enum)
    ELSE IF name = "constraint" THEN ParseConstraint(st, id, enum)
    ELSE Reject(st, UnknownArgument)

\* mutant: a flag written twice is set again
ParseFlagAgain(st, name, enum) ==
    IF name \in PlainValueArguments \cup BoundArguments \cup {"size", "constraint"}
    THEN Reject(st, MustUseValue(name))
    ELSE IF name \in FlagArguments
    THEN IF enum THEN Reject(st, NotAllowedInEnums(name))
         ELSE Accept([st.field EXCEPT ![name] = TrueTok], st.size_attr)
    ELSE Reject(st, UnknownArgument)

\* An argument written without a value
ParseFlag(st, name, enum) ==
    IF name \in PlainValueArguments \cup BoundArguments \cup {"size", "constraint"}
    THEN Reject(st, MustUseValue(name))
    ELSE IF name \in FlagArguments
    THEN IF enum THEN Reject(st, NotAllowedInEnums(name))
         ELSE IF IsSome(st.field[name]) THEN Reject(st, DefinedOnce(name))
         ELSE Accept([st.field EXCEPT ![name] = TrueTok], st.size_attr)
    ELSE Reject(st, UnknownArgument)

\* One round of `for meta in args.list`
ParseArgument(st, name, value, id, enum) ==
    IF value # "none" THEN ParseValued(st, name, value, id, enum)
    ELSE ParseFlag(st, name, enum)

\* mutant: the Field is returned without the check behind the loops
FinalCheckSkipped(st) == Accept(st.field, st.size_attr)

\* The check behind the loops of parse_attributes
FinalCheck(st) ==
    IF IsSome(st.field.pda_program_id) /\ ~IsSome(st.field.pda)
    THEN Reject(st, ProgramIdWithoutPda)
    ELSE Accept(st.field, st.size_attr)

\* The arguments read so far, over all blocks, in the order they were read
RECURSIVE ArgsOf(_)
ArgsOf(blocks) ==
    IF blocks = <<>> THEN <<>> ELSE Head(blocks).args \o ArgsOf(Tail(blocks))
ArgsRead == ArgsOf(attrs)

\* mutant: the blocks are taken from the front of the list
VecPopFront(len, popped) == popped + 1

\* Vec::pop on a list of `len` blocks of which `popped` were popped before:
\* the position in the declaration of the block it returns, the last one
VecPop(len, popped) == len

\* The attribute blocks of a field: an account block whose arguments parse or
\* do not, and a block of another path, whose arguments are never parsed
AttributeForms ==
    {[path |-> "account", parsable |-> TRUE],
     [path |-> "account", parsable |-> FALSE],
     [path |-> "doc", parsable |-> FALSE]}

\* The shapes of a variant Field::from_variant tells apart
VariantShapes == {"unnamed1", "unnamedN", "named"}

\* A field or a variant case with its attribute list is about to be compiled.
\* Only the number of its attribute blocks is drawn beforehand: the content of
\* a block is drawn when parse_attributes pops it, and an argument when the
\* loop reaches it.  `attrs` holds the blocks in the order they are popped,
\* each with its position in the declaration.
InitField ==
    /\ IdleBind /\ IdleSet /\ IdleCheck
    /\ field = FieldNew
    /\ size_attr = FALSE
    /\ attrs = <<>>
    /\ attrsLen \in 0..MaxBlocks
    /\ ppc = "start"
    /\ perr = NoParseError
    /\ is_enum = FALSE

\* Field::from up to the call of parse_attributes(attrs, false)
FieldFrom ==
    /\ ppc = "start"
    /\ ppc' = "parsing"
    /\ is_enum' = FALSE
    /\ UNCHANGED <<field, size_attr, attrs, attrsLen, perr>>
    /\ UNCHANGED <<bindVars, setVars, checkVars>>

\* Field::from_variant up to the call of parse_attributes(attrs, true)
FieldFromVariant(shape) ==
    /\ ppc = "start"
    /\ is_enum' = TRUE
    /\ ppc' = IF shape = "unnamed1" THEN "parsing" ELSE "error"
    /\ perr' = IF shape = "unnamed1" THEN NoParseError
               ELSE IF shape = "unnamedN" THEN SingleUnnamedField
               ELSE VariantMustBeLike
    /\ UNCHANGED <<field, size_attr, attrs, attrsLen>>
    /\ UNCHANGED <<bindVars, setVars, checkVars>>

\* One round of `while let Some(attribute) = attrs.pop()` up to the argument
\* loop: a block of another path is skipped, a block without a parsable
\* argument list is an error.
PopAttribute(path, parsable) ==
    /\ ppc = "parsing"
    /\ attrsLen > 0
    /\ attrsLen' = attrsLen - 1
    /\ attrs' = Append(attrs, [index |-> VecPop(attrsLen, Len(attrs)),
                               path |-> path, parsable |-> parsable,
                               args |-> <<>>])
    /\ IF path = "account" /\ ~parsable
       THEN ppc' = "error" /\ perr' = ExpectsArguments
       ELSE UNCHANGED <<ppc, perr>>
    /\ UNCHANGED <<field, size_attr, is_enum>>
    /\ UNCHANGED <<bindVars, setVars, checkVars>>

\* One round of `for meta in args.list` in the block popped last
CheckArgument(name, value) ==
    /\ ppc = "parsing"
    /\ attrs # <<>>
    /\ attrs[Len(attrs)].path = "account"
    /\ Len(ArgsRead) < MaxArgs
    /\ LET id == Len(ArgsRead) + 1
           r == ParseArgument([field |-> field, size_attr |-> size_attr],
                              name, value, id, is_enum)
       IN  /\ attrs' = [attrs EXCEPT ![Len(attrs)].args =
                           Append(@, [name |-> name, value |-> value,
                                      id |-> id])]
           /\ field' = r.field
           /\ size_attr' = r.size_attr
           /\ ppc' = IF r.ok THEN "parsing" ELSE "error"
           /\ perr' = r.err
    /\ UNCHANGED <<attrsLen, is_enum>>
    /\ UNCHANGED <<bindVars, setVars, checkVars>>

\* No attribute is left: the final check, and the Field is returned
Finish ==
    /\ ppc = "parsing"
    /\ attrsLen = 0
    /\ LET r == FinalCheck([field |-> field, size_attr |-> size_attr])
       IN  /\ ppc' = IF r.ok THEN "done" ELSE "error"
           /\ perr' = r.err
    /\ UNCHANGED <<field, size_attr, attrs, attrsLen, is_enum>>
    /\ UNCHANGED <<bindVars, setVars, checkVars>>

NextField ==
    \/ FieldFrom
    \/ \E shape \in VariantShapes : FieldFromVariant(shape)
    \/ \E a \in AttributeForms : PopAttribute(a.path, a.parsable)
    \/ \E name \in ArgumentNames : \E value \in WrittenForms(name) :
          CheckArgument(name, value)
    \/ Finish

SpecField == InitField /\ [][NextField]_vars

----------------------------------------------------------------------------
(* Cross-field validation: check_fields *)

MaxFieldList == 2   \* most fields of a schema

FieldKinds == {"Other", "Option", "Vec", "Rest"}

\* What check_fields reads of a Field: its kind and its count bounds
CheckableFields ==
    [kind : FieldKinds, min : {NoTok, Expr(1)}, max : {NoTok, Expr(1)}]

RestAfterOthers == "The rest field cannot be placed after other fields"
BoundsOnlyForVecAndRest ==
    "The min, max and size attributes are compatible only with Vec and Rest types"
RestDefinedOnce == "The rest field can only be defined once"

\* mutant: a Vec field is not checked against an earlier Rest field
CheckFieldVecAnywhere(f, rest_field) ==
    IF f.kind = "Other"
    THEN IF rest_field THEN [err |-> RestAfterOthers, rest_field |-> rest_field]
         ELSE IF IsSome(f.min) \/ IsSome(f.max)
         THEN [err |-> BoundsOnlyForVecAndRest, rest_field |-> rest_field]
         ELSE [err |-> "ok", rest_field |-> rest_field]
    ELSE IF f.kind = "Option"
    THEN IF rest_field THEN [err |-> RestAfterOthers, rest_field |-> rest_field]
         ELSE [err |-> "ok", rest_field |-> rest_field]
    ELSE IF f.kind = "Vec"
    THEN [err |-> "ok", rest_field |-> rest_field]
    ELSE IF rest_field THEN [err |-> RestDefinedOnce, rest_field |-> rest_field]
         ELSE [err |-> "ok", rest_field |-> TRUE]

\* One round of the loop of check_fields: the match on field.kind
CheckField(f, rest_field) ==
    IF f.kind = "Other"
    THEN IF rest_field THEN [err |-> RestAfterOthers, rest_field |-> rest_field]
         ELSE IF IsSome(f.min) \/ IsSome(f.max)
         THEN [err |-> BoundsOnlyForVecAndRest, rest_field |-> rest_field]
         ELSE [err |-> "ok", rest_field |-> rest_field]
    ELSE IF f.kind = "Option"
    THEN IF rest_field THEN [err |-> RestAfterOthers, rest_field |-> rest_field]
         ELSE [err |-> "ok", rest_field |-> rest_field]
    ELSE IF f.kind = "Vec"
    THEN IF rest_field THEN [err |-> RestAfterOthers, rest_field |-> rest_field]
         ELSE [err |-> "ok", rest_field |-> rest_field]
    ELSE IF rest_field THEN [err |-> RestDefinedOnce, rest_field |-> rest_field]
         ELSE [err |-> "ok", rest_field |-> TRUE]

\* check_fields from some field on, with the rest_field seen so far
RECURSIVE CheckFieldsFrom(_, _)
CheckFieldsFrom(fs, rest_field) ==
    IF fs = <<>> THEN "ok"
    ELSE LET r == CheckField(Head(fs), rest_field)
         IN  IF r.err # "ok" THEN r.err
             ELSE CheckFieldsFrom(Tail(fs), r.rest_field)

\* check_fields
CheckFieldsOf(fs) == CheckFieldsFrom(fs, FALSE)

InitCheck ==
    /\ IdleBind /\ IdleSet /\ IdleField
    /\ fieldList \in SeqsUpTo(CheckableFields, MaxFieldList)
    /\ checked = "pending"
    /\ IdleType

CheckFields ==
    /\ checked = "pending"
    /\ checked' = CheckFieldsOf(fieldList)
    /\ UNCHANGED <<fieldList, ty, fieldKind>>
    /\ UNCHANGED <<bindVars, setVars, fieldVars>>

NextCheck == CheckFields

SpecCheck == InitCheck /\ [][NextCheck]_vars

----------------------------------------------------------------------------
(* Field shape classification: discriminate_type *)

MaxGenericArgs == 2   \* most generic arguments of the last path segment

\* syn::GenericArgument: a type, a lifetime or a const expression
GenericArguments ==
    [kind : {"Type", "Lifetime", "Const"}, name : {"A", "B"}]

\* syn::PathArguments of a segment: none, `(A) -> B`, or `<...>` with its list
SegmentArguments ==
    {[form |-> "None", args |-> <<>>], [form |-> "Parenthesized", args |-> <<>>]}
        \cup [form : {"AngleBracketed"},
              args : SeqsUpTo(GenericArguments, MaxGenericArgs)]

\* syn::PathSegment
Segment(ident, arguments) == [ident |-> ident, arguments |-> arguments]
LastSegments ==
    {Segment(i, a) : i \in {"Option", "Vec", "Rest", "Account"},
                     a \in SegmentArguments}
LeadingSegments ==
    {<<>>, <<Segment("std", [form |-> "None", args |-> <<>>])>>,
     <<Segment("Option", [form |-> "None", args |-> <<>>])>>}

\* syn::Type: a path type with its segments, or a type of another form
\* (reference, tuple, array, ...)
Types ==
    {NoType} \cup
    {[path |-> TRUE, segments |-> l \o <<s>>] :
        l \in LeadingSegments, s \in LastSegments}

\* The FieldKind values, and the panic of `unwrap` on None
KindOther == [kind |-> "Other", inner |-> NoGenericArgument]
KindRest == [kind |-> "Rest", inner |-> NoGenericArgument]
KindOption(t) == [kind |-> "Option", inner |-> t]
KindVec(t) == [kind |-> "Vec", inner |-> t]
KindPanic == [kind |-> "panic", inner |-> NoGenericArgument]

\* The two wrapper arms of discriminate_type
WrapperKind(last_arg, wrap) ==
    IF last_arg.arguments.form = "AngleBracketed"
    THEN IF last_arg.arguments.args = <<>> THEN KindPanic
         ELSE LET first == Head(last_arg.arguments.args)
              IN  IF first.kind = "Type"
                  THEN [kind |-> wrap, inner |-> first]
                  ELSE KindOther
    ELSE KindOther

DiscriminateType(t) ==
    IF t.path
    THEN LET last_arg == t.segments[Len(t.segments)]
         IN  IF last_arg.ident = "Option" THEN WrapperKind(last_arg, "Option")
             ELSE IF last_arg.ident = "Vec" THEN WrapperKind(last_arg, "Vec")
             ELSE IF last_arg.ident = "Rest" THEN KindRest
             ELSE KindOther
    ELSE KindOther

\* A field of some declared type is about to be classified
InitType ==
    /\ IdleBind /\ IdleSet /\ IdleField
    /\ fieldList = <<>>
    /\ checked = "idle"
    /\ ty \in Types
    /\ fieldKind = NoKind

\* `kind: discriminate_type(&field.ty)` in Field::from
Discriminate ==
    /\ fieldKind = NoKind
    /\ fieldKind' = DiscriminateType(ty)
    /\ UNCHANGED <<ty, fieldList, checked>>
    /\ UNCHANGED <<bindVars, setVars, fieldVars>>

NextType == Discriminate

SpecType == InitType /\ [][NextType]_vars

----------------------------------------------------------------------------
(* Properties of the attribute parser, checked under SpecField *)

\* How often an argument name was read
Occurrences(name) ==
    Cardinality({i \in 1..Len(ArgsRead) : ArgsRead[i].name = name})

SingleValuedArguments ==
    {"owner", "address", "initialized", "writable", "executable",
     "rent_exempt", "signer", "min", "max", "size", "pda", "pda_program_id"}

\* C16: a struct field whose account attributes hold one of the single-valued
\* arguments twice is rejected by Field::from, whichever blocks hold the two
\* and however each is written.
DuplicateArgumentRejected ==
    (~is_enum /\ \E name \in SingleValuedArguments : Occurrences(name) >= 2)
        => ppc = "error"

\* signer is written as a flag in the last block and with a value in the block
\* before it, and the second one read is refused.
DuplicateAcrossBlocks ==
    /\ ~is_enum
    /\ Len(attrs) = 2
    /\ attrs[1].args = <<[name |-> "signer", value |-> "none", id |-> 1]>>
    /\ attrs[2].args = <<[name |-> "signer", value |-> "expr", id |-> 2]>>
    /\ ppc = "error"
    /\ perr = DefinedOnce("signer")

\* Every account block read so far had a parsable argument list
AllParsable == \A i \in 1..Len(attrs) : attrs[i].path = "account" => attrs[i].parsable

\* C19: in a variant case every per-account constraint argument is rejected,
\* while constraint = <expr> is accepted and appended to the predicates of the
\* case.
VariantAllowsOnlyConstraint ==
    is_enum =>
        /\ (\E i \in 1..Len(ArgsRead) :
               ArgsRead[i].name \in KnownArguments \ {"constraint"})
              => ppc = "error"
        /\ (AllParsable /\ Len(ArgsRead) = 1
                /\ ArgsRead[1].name = "constraint" /\ ArgsRead[1].value = "expr")
              => /\ ppc # "error"
                 /\ field.constraints = <<Expr(1)>>

\* C20: size excludes min and max in both orders, and a field that declares
\* only size is accepted with min and max both set to the size expression.
SizeExcludesBounds ==
    /\ (Occurrences("size") >= 1 /\ Occurrences("min") + Occurrences("max") >= 1)
          => ppc = "error"
    /\ (~is_enum /\ AllParsable /\ Len(ArgsRead) = 1
            /\ ArgsRead[1].name = "size" /\ ArgsRead[1].value = "expr")
          => /\ ppc # "error"
             /\ field.min = Expr(1)
             /\ field.max = Expr(1)
             /\ size_attr

\* A field declaring only size was accepted.
OnlySizeAccepted ==
    /\ ppc = "done"
    /\ ~is_enum
    /\ Len(ArgsRead) = 1
    /\ ArgsRead[1].name = "size"
    /\ field.min = Expr(1)
    /\ field.max = Expr(1)

----------------------------------------------------------------------------
(* Properties of the cross-field validation, checked under SpecCheck *)

\* C17: check_fields accepts a field list only if it holds at most one Rest
\* field and that field is the last one; a field of any kind behind a Rest
\* field is rejected.
RestIsLastAndOnly ==
    /\ checked = "ok" =>
          \A i \in 1..Len(fieldList) :
              fieldList[i].kind = "Rest" => i = Len(fieldList)
    /\ (checked # "pending" /\ \E i \in 1..(Len(fieldList) - 1) :
                                   fieldList[i].kind = "Rest")
          => checked \in {RestAfterOthers, RestDefinedOnce,
                          BoundsOnlyForVecAndRest}

\* A Vec field behind a Rest field was rejected.
VecAfterRestRejected ==
    /\ Len(fieldList) = 2
    /\ fieldList[1].kind = "Rest"
    /\ fieldList[2].kind = "Vec"
    /\ checked = RestAfterOthers

\* C18: a schema in which a plain or an optional field carries a min or max
\* count bound is rejected; count bounds are accepted on Vec and Rest only.
BoundsOnPlainOrOptionRejected ==
    checked = "ok" =>
        \A i \in 1..Len(fieldList) :
            fieldList[i].kind \in {"Other", "Option"}
                => ~IsSome(fieldList[i].min) /\ ~IsSome(fieldList[i].max)

\* Two different arguments read whose names are `a` and one of `others`
ReadTogether(a, others) ==
    \E i, j \in 1..Len(ArgsRead) :
        i # j /\ ArgsRead[i].name = a /\ ArgsRead[j].name \in others

\* C21: on a struct field a convenience form that is accepted sets the seed
\* expression and the fixed owning program of its kind, and a convenience form
\* read together with pda, pda_program_id or another convenience form is
\* rejected, whichever of the two is read first.
ConvenienceFormExcludesPda ==
    ~is_enum =>
        /\ \A name \in ConvenienceArguments :
               ReadTogether(name, ConvenienceArguments \cup {"pda", "pda_program_id"})
                   => ppc = "error"
        /\ ppc # "error" =>
               \A i \in 1..Len(ArgsRead) :
                   /\ ArgsRead[i].name = "associated_token_pda"
                          => /\ field.pda = AssociatedTokenSeeds(ArgsRead[i].id)
                             /\ field.pda_program_id = AssociatedTokenAddress
                   /\ ArgsRead[i].name = "metadata_pda"
                          => /\ field.pda = Expr(ArgsRead[i].id)
                             /\ field.pda_program_id = MetadataAddress

\* metadata_pda set the seeds and the metadata program, and the pda_program_id
\* read after it was refused.
ProgramIdAfterMetadataPdaRejected ==
    /\ ~is_enum
    /\ Len(ArgsRead) = 2
    /\ ArgsRead[1].name = "metadata_pda"
    /\ ArgsRead[2].name = "pda_program_id"
    /\ ArgsRead[2].value = "expr"
    /\ field.pda = Expr(1)
    /\ field.pda_program_id = MetadataAddress
    /\ ppc = "error"
    /\ perr = DefinedOnce("pda_program_id")

\* The names of the arguments read so far
NamesRead == {ArgsRead[i].name : i \in 1..Len(ArgsRead)}

\* parse_attributes has returned
Returned == ppc \in {"done", "error"}

\* C22: a struct field that declares pda_program_id and no derived-address
\* argument is rejected, pda and pda_program_id together are accepted in either
\* order, and a Field that Field::from returns with an owning-program override
\* has a seed expression.
ProgramIdNeedsPda ==
    ~is_enum =>
        /\ ppc = "done" => (IsSome(field.pda_program_id) => IsSome(field.pda))
        /\ (Returned /\ "pda_program_id" \in NamesRead
                /\ NamesRead \cap ({"pda"} \cup ConvenienceArguments) = {})
              => ppc = "error"
        /\ (AllParsable /\ Len(ArgsRead) = 2
                /\ NamesRead = {"pda", "pda_program_id"}
                /\ \A i \in 1..2 : ArgsRead[i].value = "expr")
              => /\ ppc # "error"
                 /\ \A i \in 1..2 : field[ArgsRead[i].name] = Expr(i)

\* pda_program_id was read before pda, and the Field was returned.
ProgramIdBeforePdaAccepted ==
    /\ ~is_enum
    /\ ppc = "done"
    /\ Len(ArgsRead) = 2
    /\ ArgsRead[1].name = "pda_program_id"
    /\ ArgsRead[2].name = "pda"
    /\ field.pda_program_id = Expr(1)
    /\ field.pda = Expr(2)

\* The arguments of the blocks declared at positions k..n, as they are written
\* in the source
RECURSIVE DeclaredFrom(_, _)
DeclaredFrom(k, n) ==
    IF k > n THEN <<>>
    ELSE LET here == {i \in 1..Len(attrs) : attrs[i].index = k}
         IN  (IF here = {} THEN <<>> ELSE attrs[CHOOSE i \in here : TRUE].args)
                 \o DeclaredFrom(k + 1, n)
ArgsDeclared == DeclaredFrom(1, Len(attrs) + attrsLen)

\* The expressions of the constraint arguments among `args`
ConstraintsAmong(args) ==
    LET cs == SelectSeq(args, LAMBDA a : a.name = "constraint")
    IN  [i \in 1..Len(cs) |-> Expr(cs[i].id)]

\* C23: the free-form predicates of a returned Field are in declaration
\* order, also when they are written in different account attribute blocks.
ConstraintsInDeclarationOrder ==
    ppc = "done" => field.constraints = ConstraintsAmong(ArgsDeclared)

\* The argument `name` is among the arguments read of the k-th block popped
ReadInBlock(name, k) ==
    \E i \in 1..Len(attrs[k].args) : attrs[k].args[i].name = name

\* C24: the attribute blocks are processed from the last declared one to the
\* first and the arguments of a block in the order they are written; nothing
\* is read behind an error, so an argument duplicated across two blocks is
\* refused at its occurrence in the block declared earlier, the value of the
\* block declared later being the one stored.
BlocksInReverseDeclarationOrder ==
    /\ \A k \in 1..Len(attrs) : attrs[k].index = Len(attrs) + attrsLen - k + 1
    /\ \A i \in 1..Len(ArgsRead) : ArgsRead[i].id = i
    /\ \A k \in 1..(Len(attrs) - 1) : attrs[k].path = "account" => attrs[k].parsable
    /\ \A a, b \in 1..Len(attrs) : \A name \in SingleValuedArguments :
           (attrs[a].index > attrs[b].index
                /\ ReadInBlock(name, a) /\ ReadInBlock(name, b))
              => /\ ppc = "error"
                 /\ perr \in {DefinedOnce(name), MustUseValue(name)}
                 /\ b = Len(attrs)
                 /\ ArgsRead[Len(ArgsRead)].name = name
                 /\ \E i \in 1..Len(attrs[a].args) :
                        /\ attrs[a].args[i].name = name
                        /\ IF name = "size"
                           THEN field.min = Expr(attrs[a].args[i].id)
                           ELSE field[name] \in {Expr(attrs[a].args[i].id), TrueTok}

\* owner is declared in two blocks; the one of the second block is read first
\* and stored, the one of the first block is refused.
DuplicateRaisedInEarlierBlock ==
    /\ Len(attrs) = 2
    /\ attrs[1].index = 2
    /\ attrs[2].index = 1
    /\ ReadInBlock("owner", 1)
    /\ ReadInBlock("owner", 2)
    /\ field.owner = Expr(1)
    /\ ppc = "error"
    /\ perr = DefinedOnce("owner")

\* C25: on a struct field a flag-style argument written without a value is
\* accepted and recorded as `true`, and written with a value it records that
\* value expression.
FlagDefaultsToTrue ==
    ~is_enum =>
        /\ ppc # "error" =>
               \A i \in 1..Len(ArgsRead) :
                   ArgsRead[i].name \in FlagArguments
                       => field[ArgsRead[i].name] =
                              IF ArgsRead[i].value = "none" THEN TrueTok
                              ELSE Expr(ArgsRead[i].id)
        /\ (AllParsable /\ Len(ArgsRead) = 1
                /\ ArgsRead[1].name \in FlagArguments)
              => ppc # "error"

\* writable is written as a flag and signer with a value, and the Field is
\* returned with `true` and with the expression.
FlagAndValuedFlagAccepted ==
    /\ ~is_enum
    /\ ppc = "done"
    /\ Len(ArgsRead) = 2
    /\ ArgsRead[1] = [name |-> "writable", value |-> "none", id |-> 1]
    /\ ArgsRead[2] = [name |-> "signer", value |-> "expr", id |-> 2]
    /\ field.writable = TrueTok
    /\ field.signer = Expr(2)

\* The arguments that carry a value
ValueBearingArguments ==
    PlainValueArguments \cup BoundArguments \cup ConvenienceArguments
        \cup {"size", "constraint"}

\* C26: a value-bearing argument written without a value is rejected with the
\* error that names the required form `<name> = <expr>`.
ValueBearingNeedsValue ==
    \A i \in 1..Len(ArgsRead) :
        (ArgsRead[i].name \in ValueBearingArguments /\ ArgsRead[i].value = "none")
            => /\ ppc = "error"
               /\ perr = MustUseValue(ArgsRead[i].name)

\* C27: an argument whose name is not a recognized one is rejected with
\* "Unknown argument", with or without a value, for a struct field and for a
\* variant case; a block whose path is not `account` is skipped, so blocks of
\* other paths alone cause no error and leave the Field as it was created.
UnknownArgumentRejected ==
    /\ \A i \in 1..Len(ArgsRead) :
           ArgsRead[i].name = "unknown"
               => /\ ppc = "error"
                  /\ perr = UnknownArgument
    /\ (ppc \in {"parsing", "done", "error"}
            /\ \A k \in 1..Len(attrs) : attrs[k].path # "account")
          => /\ ArgsRead = <<>>
             /\ field = FieldNew
             /\ ppc = "error" => perr \in {SingleUnnamedField, VariantMustBeLike}

\* A variant case with a doc block and an account block: the doc block is
\* skipped and the unknown argument of the account block is refused.
UnknownInVariantRejected ==
    /\ is_enum
    /\ Len(attrs) = 2
    /\ attrs[1].path = "doc"
    /\ attrs[2].path = "account"
    /\ ArgsRead = <<[name |-> "unknown", value |-> "expr", id |-> 1]>>
    /\ ppc = "error"
    /\ perr = UnknownArgument

----------------------------------------------------------------------------
(* Properties of the field shape classification, checked under SpecType *)

\* The last path segment of the declared type is `ident<T>` with exactly one
\* generic argument, which is a type
IsSingleTypeWrapper(ident) ==
    /\ ty.path
    /\ LET s == ty.segments[Len(ty.segments)]
       IN  /\ s.ident = ident
           /\ s.arguments.form = "AngleBracketed"
           /\ Len(s.arguments.args) = 1
           /\ s.arguments.args[1].kind = "Type"

\* C28: a type whose last path segment is Option or Vec with one type argument
\* is classified Option or Vec with that argument, one whose last path segment
\* is Rest is classified Rest, and every other type is classified Other.
ShapeClassification ==
    fieldKind # NoKind =>
        LET s == ty.segments[Len(ty.segments)]
        IN  IF IsSingleTypeWrapper("Option")
            THEN fieldKind = KindOption(s.arguments.args[1])
            ELSE IF IsSingleTypeWrapper("Vec")
            THEN fieldKind = KindVec(s.arguments.args[1])
            ELSE IF ty.path /\ s.ident = "Rest" THEN fieldKind = KindRest
            ELSE fieldKind = KindOther

----------------------------------------------------------------------------
(* Further properties of the fallback pair, checked under Spec *)

\* The schema of the side a bound fallback pair holds
HeldSchema(v, schema) == IF v.tag = "Left" THEN schema.l ELSE schema.r

\* C29: when Either::try_from succeeds, the caller's cursors are where the
\* binder of the selected side left them after it started on the payload one
\* byte past the discriminant and on the caller's handles; the value holds
\* what that binder returned, and nothing else is consumed.
SuccessCommitsSelectedSide ==
    (IsEitherCall /\ last.ok) =>
        /\ last.buf # <<>>
        /\ last.buf[1] = Discriminant(last.val)
        /\ LET inner == TryFrom(HeldSchema(last.val, last.schema),
                                Tail(last.buf), last.accounts)
           IN  /\ inner.ok
               /\ last.val.inner = inner.val
               /\ buf = inner.buf
               /\ accounts = inner.accounts

\* A pair nested in the left side was bound: two discriminant bytes and one
\* handle are consumed.
NestedPairCommitted ==
    /\ IsEitherCall
    /\ last.ok
    /\ last.val.tag = "Left"
    /\ last.val.inner.tag = "Right"
    /\ last.accounts # <<>>
    /\ buf = Tail(Tail(last.buf))
    /\ accounts = Tail(last.accounts)

\* The value an operation of the invocation works on, and the operation
OperandOf(op, v) ==
    IF op = "cpi" THEN ToCpi(v) ELSE IF op = "lpi" THEN ToLpi(v) ELSE v
Operation(op, v, parts) ==
    IF op = "cpi" THEN SerializeIntoInstructionParts(v, parts)
    ELSE IF op = "lpi" THEN LpiSerializeIntoInstructionParts(v, parts)
    ELSE VerifyAccountInfos(v, parts)

\* C30: the outbound serialization, the local serialization and the handle
\* verification of a fallback pair invoke the same operation of the side that
\* is held, once, and no operation of the other side: what the pair leaves
\* behind is what the operation of the held side leaves behind.
DispatchesToHeldSide ==
    out.op # "" =>
        LET v == OperandOf(out.op, out.from)
            held == Invoked(IF out.from.tag = "Left" THEN "L" ELSE "R", v.inner)
            r == Operation(out.op, v.inner, NoParts)
        IN  out.parts = [r EXCEPT !.calls = <<held>> \o r.calls]

\* The local serialization ran on a pair that holds its right side: the
\* operation of the right side is the only one invoked.
LocalOnRightSide ==
    /\ out.op = "lpi"
    /\ out.from.tag = "Right"
    /\ out.from.inner.tag = "Uninit"
    /\ out.parts.calls = <<Invoked("R", ToLpi(out.from.inner))>>
    /\ out.parts.metas = <<[pubkey |-> out.from.inner.info]>>
    /\ out.parts.infos = <<>>

----------------------------------------------------------------------------
(* Further properties of the staged resource, checked under SpecStaged *)

IsInitialized(h) == infos[h].owner = ProgramId

\* The staged objects over the handle `h`
StagedOver(S, h) == {s \in S : s.info = h}

\* One step of the lifecycle, seen from the staged objects and the handles
OneWayStep ==
    /\ spent \subseteq spent'
    /\ \A s \in staged' : s.id \notin spent'
    /\ spent' # spent
          => /\ \E self \in staged :
                    /\ self \notin staged'
                    /\ spent' = spent \cup {self.id}
             /\ Len(last'.requests) <= 1
    /\ \A h \in Handles :
           IsInitialized(h)
               => /\ infos'[h] = infos[h]
                  /\ StagedOver(staged', h) \subseteq StagedOver(staged, h)

\* C32: a transition consumes its staged object, so every staged object makes
\* at most one transition and issues at most one create-and-fund request; a
\* handle that a transition has initialized stays as the transition left it,
\* and no staged object is created over it again.
TransitionIsOneWay == [][OneWayStep]_vars

\* A handle that a transition initialized was handed to UninitializedAccount::new
\* again, and refused.
InitializedHandleNotStagedAgain ==
    /\ last.op = "UninitializedAccount::new"
    /\ ~last.ok
    /\ IsInitialized(last.target)
    /\ spent # {}
    /\ StagedOver(staged, last.target) = {}

\* The request of the last transition was carried out: nothing failed outside
\* the invocation and the handle was empty (the payer can fund every request)
RequestSucceeded ==
    /\ Len(last.requests) = 1
    /\ last.args.fault = "none"
    /\ last.requests[1].toEmpty

\* C33: a transition whose minimum-balance query fails returns that error and
\* issues no request, a transition whose create-and-fund request fails returns
\* that error, and in both cases no bound value is produced; a bound value is
\* returned only when the request succeeded.
FailedTransitionBindsNothing ==
    IsTransition =>
        /\ last.args.fault = "rent"
              => /\ ~last.ok
                 /\ last.err = ProgramError("Rent::get")
                 /\ last.requests = <<>>
        /\ (last.args.fault # "rent" /\ ~RequestSucceeded)
              => /\ ~last.ok
                 /\ last.err = ProgramError("create_account")
        /\ ~last.ok => last.val = NoVal
        /\ last.ok => /\ RequestSucceeded
                      /\ last.val.tag = "Account"
                      /\ IsInitialized(last.target)

\* The create-and-fund request of a transition with a value failed, and no
\* bound value came back.
CreateRequestFailed ==
    /\ last.op = "init_with_value"
    /\ last.args.fault = "cpi"
    /\ Len(last.requests) = 1
    /\ ~last.ok
    /\ last.val = NoVal
    /\ ~IsInitialized(last.target)

PdaForms == {"init_pda", "init_pda_with_min_space", "init_pda_with_value"}

\* C34: the bound value of a successful transition is over the handle that
\* was staged and carries the default content of T, or for the *_with_value
\* forms the value the caller supplied; the request of a non-PDA form carries
\* no signer seeds and the request of a PDA form carries the one seed list
\* the caller supplied.
BoundValueAndSignerSeeds ==
    IsTransition =>
        /\ last.ok =>
              last.val = [tag |-> "Account", info |-> last.target,
                          data |-> IF last.op \in ValueForms
                                   THEN last.args.value ELSE DefaultValue]
        /\ \A i \in 1..Len(last.requests) :
               /\ last.requests[i].to = last.target
               /\ last.requests[i].signerSeeds =
                      IF last.op \in PdaForms THEN <<last.args.seeds>>
                      ELSE <<>>

\* A PDA was created with a value that is not the default one; its request
\* carries one signer seed list, the supplied one.
PdaWithValueBound ==
    /\ last.op = "init_pda_with_value"
    /\ last.ok
    /\ last.val.data # DefaultValue
    /\ last.args.seeds = <<"seed", "bump">>
    /\ last.requests[1].signerSeeds = <<<<"seed", "bump">>>>

----------------------------------------------------------------------------
(* Further properties of the zero-copy sets, checked under SpecSet *)

\* One step seen from an iterator: what a step does once None was returned,
\* and the only step that takes the index back
StepOfIter ==
    /\ iter.state = "done"
          => /\ SizeHint(iter) = 0
             /\ res'.op = "next"
                   => /\ res'.kind = "none"
                      /\ iter' = iter
                      /\ yielded' = yielded
             /\ iter' # iter
                   => /\ res'.op = "into_iter"
                      /\ iter' = IntoIterOf(zcData, offset)
                      /\ iter'.index = 0
                      /\ iter'.offset = offset
    /\ iter'.index < iter.index => res'.op = "into_iter"

\* C35: an iterator that has returned None returns None on every later step
\* and reports a remaining length of zero; no step of an iterator takes its
\* index back, and iterating again takes a fresh iterator built from the
\* view, which starts at index 0 and at the offset of the view.
IteratorStaysExhausted == [][StepOfIter]_vars

\* An iterator over a set that is not empty yielded its items and then None.
IteratorExhausted ==
    /\ iter.state = "done"
    /\ iter.len > 0
    /\ Len(yielded) = iter.len
    /\ res.op = "next"
    /\ res.kind = "none"

\* One step seen from the buffer and the view
StepOfView ==
    /\ zcData' = zcData
    /\ offset' = offset
    /\ iter.state # "none" => iter'.len = iter.len

\* C36: no operation of the view or of its iterator writes the shared buffer
\* or changes the offset of the view, and the len an iterator decoded when it
\* was built is the same after every later step.
ViewOnlyReads == [][StepOfView]_vars

\* After the iterator has moved past its first item the length of the view is
\* read, and it is the length the iterator decoded.
LenReadWhileIterating ==
    /\ iter.state = "live"
    /\ iter.index > 0
    /\ iter.offset > offset
    /\ res = [op |-> "len", kind |-> "ok", val |-> iter.len]

====
